---- MODULE Spec2Model ----
(***************************************************************************)
(* A model of the incremental analysis engine of response-analyzer:       *)
(*   - Analyzer.AnalyzeResponses and the two matching dispatch modes      *)
(*     (pkg/analysis), specification Spec;                                *)
(*   - Client.GetCompletion with its cache lookup, rate-limit delay and   *)
(*     retry loop (pkg/claude), specification SpecClient.                 *)
(***************************************************************************)
EXTENDS Integers, Sequences, FiniteSets, TLC

\* ------------------------------------------------------------------------
\* Bounds of the model
\* ------------------------------------------------------------------------
\* most responses in one input (ids are the row positions 1..n)
MaxResponses == 2
\* largest configured batch size
MaxBatchSize == 2
\* largest configured worker count
MaxWorkers == 2
\* largest configured rate-limit delay, in units of time
MaxDelay == 2
\* most calls of GetCompletion on one client
MaxCalls == 2
\* most input tokens the API reports for one completion
MaxUsage == 2
\* threads that call the Cache
MaxThreads == 2
\* calls of the Cache, over the processes that open the cache directory
MaxOps == 3
\* most responses handed to IdentifyThemes
MaxSampled == 104
\* most lines of a completion handed to parseBatchResults
MaxLines == 2
\* most dirty responses of a run whose batches are only counted
MaxDirty == 101
\* most characters of a prompt whose cache key is compared
MaxText == 2
\* most lines after the marker of a theme-summary completion
MaxIdeaLines == 2

VARIABLES
    \* inputs of AnalyzeResponses and the Analyzer's fields
    responses,        \* []excel.Response, in row order
    prev,             \* previousResult (*AnalysisResult, exists = FALSE for nil)
    cfgThemes,        \* cfg.Themes
    cfg,              \* cfg's summary fields, read when the summary stage starts
    useParallel,      \* a.useParallel
    batchSize,        \* a.batchSize
    parallelWorkers,  \* a.parallelWorkers
    \* AnalyzeResponses
    pc,               \* position of the run
    themes,           \* result.Themes
    res,              \* the rest of the AnalysisResult under construction
    responsesChanged, \* the flag of lines 528-537
    pending,          \* themes GenerateThemeSummaries has still to visit
    ret,              \* what AnalyzeResponses returned
    requests,         \* every completion request the run issued
    \* the matching call
    newResponses,     \* the dirty responses, in input order
    size,             \* the batch size the call uses
    matchRet,         \* what the matching call returned
    result,           \* the result map of the matching call
    batches,          \* parallel: the batches, one goroutine each
    numWorkers,       \* parallel: capacity of the semaphore channel
    wpc,              \* parallel: position of each batch's goroutine
    batchResults,     \* parallel: each goroutine's matchedThemesBatch
    semaphore,        \* parallel: number of tokens in the semaphore channel
    wg,               \* parallel: the WaitGroup counter
    errorsChan,       \* parallel: the buffered error channel
    sIdx,             \* serial: the client's loop index i
    allResults,       \* serial: the client's allResults
    \* the Client and one call of GetCompletion
    model,            \* c.model
    rateLimitDelay,   \* c.rateLimitDelay
    cacheEnabled,     \* c.cache != nil
    cache,            \* the entries of c.cache, by cache key
    totalTokens,      \* c.totalTokens
    totalCost,        \* c.totalCost, in 1e-8 dollars
    cpc,              \* position of the call: "idle", "delay" or "send"
    cacheKey,         \* cacheKey of the call
    retry,            \* the loop variable of the retry loop
    statuses,         \* the outcomes of the HTTP attempts of the call so far
    sleeps,           \* the time.Sleep calls of the call so far
    atEntry,          \* the cache and the totals when the call was made
    cret,             \* what the last call returned
    calls,            \* number of calls made
    \* the completions the client's cache holds, as the analyzer's calls see them
    llmCache,         \* completion by prompt
    live,             \* the requests of the run that went to the API
    \* runWorkflow
    run,              \* 1 in the first run on an input, 2 in a repeated run
    firstRun,         \* what the first run returned
    stateFile,        \* the content of the state file
    identifyThemesOnly, \* the -identify-themes-only flag
    prevThemes,       \* previousResult.Themes
    themesFile,       \* the content of themes.yaml, <<"none">> before it is written
    \* the Cache object and the threads that call it
    cstatus,          \* "none" before NewCache, then "ok" or "error"
    workflowErr,      \* the error runWorkflow returned, "" for none
    persisted,        \* c.persisted
    ttl,              \* c.ttl
    entries,          \* c.entries, by hashed key
    files,            \* the entry files of c.cacheDir, by hashed key
    now,              \* time.Now()
    mutex,            \* c.mutex: the read holders and the write holder (0: none)
    tpc,              \* position of each thread
    tloc,             \* each thread's key, value, entry and return values
    removes,          \* the file removals Get started and that have not run yet
    ops,              \* number of calls started
    written,          \* by key, the value and time of the last Set since the last Clear
    fatal,            \* the Go runtime stopped the process on a concurrent map access
    proc,             \* 1 in the first process on the cache directory, 2 in a later one
    saved,            \* by key, the last Set of the earlier process, if its file was written
    startup,          \* what loadEntries met: the listing, and the files it could not read
    \* one call of a function of the client or the analyzer on its own
    fn,               \* the function called, "none" for none
    args,             \* its arguments
    out,              \* what it returned
    \* GetCompletion calls that run concurrently on one client
    gpc,              \* position of each call
    gloc,             \* each call's cost and the totals it has loaded
    completed         \* the cost records of the live completions received

\* the variables of a function called on its own
callVars == <<fn, args, out>>
inputVars == <<responses, prev, cfgThemes, useParallel, batchSize, parallelWorkers, callVars>>
runVars   == <<pc, themes, res, responsesChanged, pending, ret, requests, cfg>>
matchVars == <<newResponses, size, matchRet, result, batches, numWorkers, wpc, batchResults,
               semaphore, wg, errorsChan, sIdx, allResults>>
analyzerVars == <<inputVars, runVars, matchVars>>
clientVars == <<model, rateLimitDelay, cacheEnabled, cache, totalTokens, totalCost,
                cpc, cacheKey, retry, statuses, sleeps, atEntry, cret, calls>>
workflowVars == <<run, firstRun, stateFile, identifyThemesOnly, prevThemes, themesFile>>
\* the variables of the Cache object and of concurrent client calls
processVars == <<proc, saved, startup>>
cacheObjVars == <<cstatus, workflowErr, persisted, ttl, entries, files, now, mutex, tpc, tloc,
                  removes, ops, written, fatal, processVars>>
workerVars == <<gpc, gloc, completed>>
storeVars == <<cacheObjVars, workerVars>>
vars == <<analyzerVars, clientVars, llmCache, live, workflowVars, storeVars>>

\* ------------------------------------------------------------------------
\* Helpers
\* ------------------------------------------------------------------------
Min(a, b) == IF a < b THEN a ELSE b

EmptyMap == [x \in {} |-> 0]

\* m with key k set to v (a Go map assignment m[k] = v)
Put(m, k, v) == [x \in DOMAIN m \cup {k} |-> IF x = k THEN v ELSE m[x]]

Range(s) == {s[i] : i \in DOMAIN s}

RECURSIVE Perms(_)
\* all orders in which a Go map with the keys S can be iterated
Perms(S) ==
    IF S = {} THEN {<<>>}
    ELSE UNION {{<<x>> \o p : p \in Perms(S \ {x})} : x \in S}

\* ------------------------------------------------------------------------
\* Data
\* ------------------------------------------------------------------------
\* the text in row id of the current input
TextOf(id) == IF id % 2 = 1 THEN "a" ELSE "b"

\* the content hash of a text: a digest, equal exactly for equal texts
Hash(t) == <<"sha256", t>>

Response(id, t) == [id |-> id, text |-> t, hash |-> Hash(t)]

\* the themes a prior run stored for a response; "T9" is a theme of an older
\* theme list, and "T2" was given to both responses
PriorThemes(id) ==
    IF id = 1 THEN <<"T1", "T2">> ELSE IF id = 2 THEN <<"T9", "T2">> ELSE <<>>

PriorAnalysis(id, t) ==
    [response |-> Response(id, t), themes |-> PriorThemes(id), analyzed |-> 0]

ConfigThemes == <<"T1", "T2">>

\* ------------------------------------------------------------------------
\* The model behind the API: one answer per prompt
\* ------------------------------------------------------------------------
\* The theme numbers the model lists for response i of a batch prompt. The
\* answer depends on the text, on its position and on the size of the batch,
\* and has numbers out of range and repeated numbers.
ModelNums(texts, i) ==
    IF texts[i] = "a"
    THEN (IF i = 1 THEN <<1>> ELSE <<1, 2>>)
    ELSE (IF Len(texts) = 1 THEN <<2, 2, 3>> ELSE <<0>>)

\* The lines of the completion for a batch prompt, as (response number, theme
\* numbers): a line the parser rejects (number 0), one line per response
\* except a "b" in second position, and a line past the end of the batch.
ModelLines(texts) ==
    <<[num |-> 0, nums |-> <<1>>]>>
    \o SelectSeq([i \in 1..Len(texts) |-> [num |-> i, nums |-> ModelNums(texts, i)]],
                 LAMBDA l : ~(l.num = 2 /\ texts[l.num] = "b"))
    \o <<[num |-> Len(texts) + 1, nums |-> <<1>>]>>

\* the completion for a theme-summary prompt
ModelThemeSummary(theme, texts) ==
    [summary |-> <<"summary of", theme, texts>>, uniqueIdeas |-> <<>>]

\* the completion for a global-summary prompt
ModelGlobalSummary(order, prompt, length) == <<"global", order, prompt, length>>

\* the completion for a theme-identification prompt
IdentifiedThemes == {<<"T1", "T2">>, <<>>}

\* ------------------------------------------------------------------------
\* Client: batch matching
\* ------------------------------------------------------------------------
\* the theme names of the numbers that are in 1..len(themes), in order
NumsToThemes(nums, ths) ==
    LET ok == SelectSeq(nums, LAMBDA n : n > 0 /\ n <= Len(ths))
    IN  [j \in 1..Len(ok) |-> ths[ok[j]]]

RECURSIVE ParseLines(_, _, _, _)
ParseLines(lines, results, responseCount, ths) ==
    IF lines = <<>> THEN results
    ELSE LET l == Head(lines)
         IN  ParseLines(Tail(lines),
                 IF l.num < 1 \/ l.num > responseCount
                 THEN results
                 ELSE [results EXCEPT ![l.num] = NumsToThemes(l.nums, ths)],
                 responseCount, ths)

\* Client.parseBatchResults
parseBatchResults(lines, responseCount, ths) ==
    ParseLines(lines, [i \in 1..responseCount |-> <<>>], responseCount, ths)

\* Client.processBatch on a successful completion
processBatch(texts, ths) == parseBatchResults(ModelLines(texts), Len(texts), ths)

\* mutant: the batch takes the rest of the list
BatchEndWhole(i, n, bsize) == n

\* the end of the batch that starts at offset i (0-based), lines 495-498
BatchEnd(i, n, bsize) == Min(i + bsize, n)

\* ------------------------------------------------------------------------
\* Analyzer: partition into unchanged and dirty responses
\* ------------------------------------------------------------------------
\* previousAnalyses of AnalyzeResponses, lines 503-507
PreviousAnalyses == IF prev.exists THEN prev.responseAnalyses ELSE EmptyMap

\* the test of lines 110 and 185
Unchanged(r, previousAnalyses) ==
    /\ r.id \in DOMAIN previousAnalyses
    /\ previousAnalyses[r.id].response.hash = r.hash

\* mutant: the carried-over analyses get the time of the run
ReusedAnalysesRestamped(resps, previousAnalyses) ==
    [id \in {resps[i].id : i \in {j \in DOMAIN resps :
                                    /\ resps[j].id \in DOMAIN previousAnalyses
                                    /\ previousAnalyses[resps[j].id].response.hash = resps[j].hash}}
        |-> [previousAnalyses[id] EXCEPT !.analyzed = 1]]

\* the result map after the reuse loop (ids are unique in an input)
ReusedAnalyses(resps, previousAnalyses) ==
    [id \in {resps[i].id : i \in {j \in DOMAIN resps : Unchanged(resps[j], previousAnalyses)}}
        |-> previousAnalyses[id]]

\* mutant: only the responses without a prior analysis are analysed
DirtyResponsesUnseen(resps, previousAnalyses) ==
    SelectSeq(resps, LAMBDA r : r.id \notin DOMAIN previousAnalyses)

\* newResponses after the reuse loop
DirtyResponses(resps, previousAnalyses) ==
    SelectSeq(resps, LAMBDA r : ~Unchanged(r, previousAnalyses))

\* the batch size of the matching call, lines 134-142 and 203-210
EffectiveBatchSize(bsize, n) ==
    IF bsize > 0 THEN bsize
    ELSE IF n > 100 THEN 20 ELSE IF n < 10 THEN n ELSE 10

\* the worker count of the parallel call, lines 213-218
EffectiveWorkers(workers, n, bsize) ==
    IF workers > 0 THEN workers
    ELSE IF n < 4 * bsize THEN (n + bsize - 1) \div bsize ELSE 4

RECURSIVE CreateBatches(_, _)
\* the batches of lines 221-228
CreateBatches(resps, bsize) ==
    IF resps = <<>> THEN <<>>
    ELSE LET end == Min(bsize, Len(resps))
         IN  <<SubSeq(resps, 1, end)>> \o CreateBatches(SubSeq(resps, end + 1, Len(resps)), bsize)

TextsOf(resps) == [i \in 1..Len(resps) |-> resps[i].text]
IdsOf(resps) == [i \in 1..Len(resps) |-> resps[i].id]

\* the response analyses of lines 151-168 and 262-278, as a map by id
MakeAnalyses(resps, matched) ==
    [id \in Range(IdsOf(resps)) |->
        LET i == CHOOSE j \in DOMAIN resps :
                    resps[j].id = id /\ \A k \in DOMAIN resps : resps[k].id = id => k <= j
        IN  [response |-> resps[i],
             themes   |-> IF i <= Len(matched) THEN matched[i] ELSE <<>>,
             analyzed |-> 1]]

\* mutant: the shared map is assigned instead of added to
MergeReplace(into, from) == from

\* a Go loop "for id, analysis := range from { into[id] = analysis }"
Merge(into, from) ==
    [id \in DOMAIN into \cup DOMAIN from |-> IF id \in DOMAIN from THEN from[id] ELSE into[id]]

MatchRequest(k, resps) ==
    [kind |-> "match", idx |-> k, ids |-> IdsOf(resps), texts |-> TextsOf(resps),
     theme |-> "", order |-> <<>>]

\* ------------------------------------------------------------------------
\* Initial states: the inputs of one run
\* ------------------------------------------------------------------------
Ids == 1..MaxResponses

\* the inputs: rows 1..n
InputResponses == {[i \in 1..n |-> Response(i, TextOf(i))] : n \in 0..MaxResponses}

\* The response analyses of a prior result: any subset of the ids, each with
\* the text of the current row or, for a row of the input, with an older text.
PriorAnalysesChoices(n) ==
    UNION {{[id \in S |-> PriorAnalysis(id, IF id \in O THEN "old" ELSE TextOf(id))]
                : O \in SUBSET (S \cap (1..n))}
            : S \in SUBSET Ids}

NoSummaries == [themeSummaries |-> EmptyMap, globalSummary |-> <<>>, summary |-> <<>>]

\* the summaries of a prior run whose theme list had "T1" and "T9"
PriorSummaries ==
    [themeSummaries |-> [t \in {"T1", "T9"} |->
                            [summary |-> <<"prior summary", t>>, uniqueIdeas |-> <<>>]],
     globalSummary  |-> <<"prior global">>,
     summary        |-> <<"prior global">>]

NoPrev ==
    [exists |-> FALSE, responseAnalyses |-> EmptyMap, themeSummaries |-> EmptyMap,
     globalSummary |-> <<>>, summary |-> <<>>]

PrevChoices(n) ==
    {NoPrev} \cup
    {[exists |-> TRUE, responseAnalyses |-> a, themeSummaries |-> s.themeSummaries,
      globalSummary |-> s.globalSummary, summary |-> s.summary]
        : a \in PriorAnalysesChoices(n), s \in {NoSummaries, PriorSummaries}}

\* cfg.ThemeSummaryPrompt, cfg.GlobalSummaryPrompt, cfg.SummaryLength
SummaryConfigs ==
    [read : {TRUE}, themeSummaryPrompt : {"", "tsp"}, globalSummaryPrompt : {"", "gsp"},
     summaryLength : {0, 500}]

ConfigUnread ==
    [read |-> FALSE, themeSummaryPrompt |-> "", globalSummaryPrompt |-> "", summaryLength |-> 0]

Running == [status |-> "running", stage |-> "", errs |-> <<>>]
Returned == [status |-> "ok", stage |-> "", errs |-> <<>>]
Failed(stage, errs) == [status |-> "error", stage |-> stage, errs |-> errs]

NoMatchRet == [status |-> "none", analyses |-> EmptyMap, errs |-> <<>>]

EmptyResult ==
    [responseAnalyses |-> EmptyMap, themeAnalyses |-> EmptyMap,
     themeSummaries |-> EmptyMap, globalSummary |-> <<>>, summary |-> <<>>]

\* themes.yaml has not been written
NoThemesFile == <<"none">>

\* no first run has returned
NoFirst == [exists |-> FALSE, themes |-> <<>>, res |-> EmptyResult]

\* the function has not returned
NotReturned == [returned |-> FALSE]

\* no function is called on its own
NoCall ==
    /\ fn = "none"
    /\ args = <<>>
    /\ out = NotReturned

InitRun ==
    /\ NoCall
    /\ responses \in InputResponses
    /\ prev \in PrevChoices(Len(responses))
    /\ cfgThemes \in {<<>>, ConfigThemes}
    /\ cfg = ConfigUnread
    /\ useParallel \in BOOLEAN
    /\ batchSize \in 1..MaxBatchSize
    /\ parallelWorkers \in 1..MaxWorkers
    /\ pc = IF cfgThemes = <<>> THEN "identify" ELSE "match"
    /\ themes = cfgThemes
    /\ res = EmptyResult
    /\ responsesChanged = FALSE
    /\ pending = {}
    /\ ret = Running
    /\ requests = {}
    /\ newResponses = <<>>
    /\ size = 0
    /\ matchRet = NoMatchRet
    /\ result = EmptyMap
    /\ batches = <<>>
    /\ numWorkers = 0
    /\ wpc = <<>>
    /\ batchResults = <<>>
    /\ semaphore = 0
    /\ wg = 0
    /\ errorsChan = <<>>
    /\ sIdx = 0
    /\ allResults = <<>>
    /\ llmCache = EmptyMap
    /\ live = {}
    /\ run = 1
    /\ firstRun = NoFirst
    /\ stateFile = prev
    /\ identifyThemesOnly = FALSE
    /\ prevThemes = <<>>
    /\ themesFile = NoThemesFile

\* ------------------------------------------------------------------------
\* AnalyzeResponses: theme identification
\* ------------------------------------------------------------------------
\* What the cache key of a request is made of (client.go line 176): the prompt
\* the client builds for it and the system prompt. The model name and
\* maxTokens are the same for every request of a workflow.
PromptKey(q, ths) ==
    [kind |-> q.kind, texts |-> q.texts, theme |-> q.theme, order |-> q.order,
     themes |-> IF q.kind = "match" THEN ths ELSE <<>>,
     system |-> IF q.kind = "theme" THEN cfg.themeSummaryPrompt ELSE "",
     length |-> IF q.kind = "global" THEN q.idx ELSE 0,
     body |-> IF q.kind = "global" THEN res.themeSummaries ELSE EmptyMap]

\* client.go lines 177-182: the cache holds a completion for the prompt
Hit(key) == key \in DOMAIN llmCache

\* a cached prompt is answered before any HTTP request and cannot fail
Outcomes(key) == IF Hit(key) THEN {TRUE} ELSE BOOLEAN

\* the completion GetCompletion returns: the cached one, or the model's
Completion(key, fresh) == IF Hit(key) THEN llmCache[key] ELSE fresh

\* GetCompletion as its callers see it: a miss is a live request, and a live
\* completion is written to the cache (lines 268-273)
Complete(q, key, ok, fresh) ==
    /\ requests' = requests \cup {q}
    /\ live' = IF Hit(key) THEN live ELSE live \cup {q}
    /\ llmCache' = IF ok /\ ~Hit(key) THEN Put(llmCache, key, fresh) ELSE llmCache

IdentifyRequest ==
    [kind |-> "identify", idx |-> 0, ids |-> IdsOf(responses), texts |-> TextsOf(responses),
     theme |-> "", order |-> <<>>]

\* lines 494-501: cfg.Themes is empty, so the themes are asked from the model
IdentifyThemes ==
    /\ pc = "identify"
    /\ LET key == PromptKey(IdentifyRequest, themes)
       IN  \E ok \in Outcomes(key), th \in IdentifiedThemes :
            /\ Complete(IdentifyRequest, key, ok, th)
            /\ IF ok
               THEN /\ themes' = Completion(key, th)
                    /\ pc' = "match"
                    /\ ret' = ret
               ELSE /\ themes' = themes
                    /\ pc' = "done"
                    /\ ret' = Failed("identify", <<>>)
    /\ UNCHANGED <<clientVars, storeVars, workflowVars, inputVars, matchVars, res, responsesChanged, pending, cfg>>

\* ------------------------------------------------------------------------
\* The matching call returns to AnalyzeResponses (lines 509-523)
\* ------------------------------------------------------------------------
MatchReturnsOk(analyses) ==
    /\ matchRet' = [status |-> "ok", analyses |-> analyses, errs |-> <<>>]
    /\ res' = [res EXCEPT !.responseAnalyses = analyses]
    /\ pc' = "build"
    /\ ret' = ret

\* mutant: the map built so far is returned together with the error
MatchReturnsErrorWithPartial(errs) ==
    /\ matchRet' = [status |-> "error", analyses |-> result, errs |-> errs]
    /\ res' = res
    /\ pc' = "done"
    /\ ret' = Failed("match", errs)

MatchReturnsError(errs) ==
    /\ matchRet' = [status |-> "error", analyses |-> EmptyMap, errs |-> errs]
    /\ res' = res
    /\ pc' = "done"
    /\ ret' = Failed("match", errs)

\* ------------------------------------------------------------------------
\* Serial dispatch: Analyzer.MatchResponsesToThemes
\* ------------------------------------------------------------------------
\* what a matching call leaves alone of the inputs of the run
matchInputs == <<responses, cfgThemes, useParallel, batchSize, parallelWorkers, callVars>>

\* mutant: the reuse loop moves the analyses it reuses out of the prior map
PriorAfterReuseMoved(p, reused) ==
    [p EXCEPT !.responseAnalyses =
        [id \in DOMAIN p.responseAnalyses \ DOMAIN reused |-> p.responseAnalyses[id]]]

\* lines 105-118 and 179-193: the reuse loop reads the prior map and writes
\* only the map made for the result, so the prior result is as it was
PriorAfterReuse(p, reused) == p

\* lines 101-142: the reuse loop, the early return, the batch size
MatchResponsesToThemes ==
    /\ pc = "match"
    /\ ~useParallel
    /\ LET dirty == DirtyResponses(responses, PreviousAnalyses)
           reused == ReusedAnalyses(responses, PreviousAnalyses)
       IN  /\ newResponses' = dirty
           /\ result' = reused
           /\ IF Len(dirty) = 0
              THEN /\ MatchReturnsOk(reused)
                   /\ size' = size
              ELSE /\ size' = EffectiveBatchSize(batchSize, Len(dirty))
                   /\ pc' = "serial"
                   /\ UNCHANGED <<matchRet, res, ret>>
    /\ sIdx' = 0
    /\ allResults' = <<>>
    /\ prev' = PriorAfterReuse(prev, ReusedAnalyses(responses, PreviousAnalyses))
    /\ UNCHANGED <<clientVars, storeVars, workflowVars, llmCache, live, matchInputs, themes, responsesChanged, pending, requests, cfg,
                   batches, numWorkers, wpc, batchResults, semaphore, wg, errorsChan>>

\* One iteration of the loop of Client.MatchResponsesToThemesBatch (lines
\* 494-507): one completion request for the batch at offset sIdx.
SerialBatch ==
    /\ pc = "serial"
    /\ sIdx < Len(newResponses)
    /\ LET bsize == IF size <= 0 THEN 10 ELSE size
           end   == BatchEnd(sIdx, Len(newResponses), bsize)
           batch == SubSeq(newResponses, sIdx + 1, end)
           q     == MatchRequest(sIdx \div bsize, batch)
           key   == PromptKey(q, themes)
       IN  \E ok \in Outcomes(key) :
            /\ Complete(q, key, ok, ModelLines(q.texts))
            /\ IF ok
               THEN /\ allResults' = allResults \o
                            parseBatchResults(Completion(key, ModelLines(q.texts)),
                                              Len(batch), themes)
                    /\ sIdx' = end
                    /\ UNCHANGED <<matchRet, res, pc, ret, result>>
               ELSE /\ MatchReturnsError(<<sIdx \div bsize>>)
                    /\ UNCHANGED <<allResults, sIdx, result>>
    /\ UNCHANGED <<clientVars, storeVars, workflowVars, inputVars, themes, responsesChanged, pending, cfg, newResponses, size,
                   batches, numWorkers, wpc, batchResults, semaphore, wg, errorsChan>>

\* lines 150-171: the batch results become response analyses
SerialReturn ==
    /\ pc = "serial"
    /\ sIdx >= Len(newResponses)
    /\ result' = Merge(result, MakeAnalyses(newResponses, allResults))
    /\ MatchReturnsOk(result')
    /\ UNCHANGED <<clientVars, storeVars, workflowVars, llmCache, live, inputVars, themes, responsesChanged, pending, requests, cfg,
                   newResponses, size, batches, numWorkers, wpc, batchResults,
                   semaphore, wg, errorsChan, sIdx, allResults>>

\* ------------------------------------------------------------------------
\* Parallel dispatch: Analyzer.MatchResponsesToThemesParallel
\* ------------------------------------------------------------------------
\* lines 175-289: the reuse loop, the early return, sizes, batches, and one
\* goroutine per batch
MatchResponsesToThemesParallel ==
    /\ pc = "match"
    /\ useParallel
    /\ LET dirty == DirtyResponses(responses, PreviousAnalyses)
           reused == ReusedAnalyses(responses, PreviousAnalyses)
           bsize == EffectiveBatchSize(batchSize, Len(dirty))
           bs == CreateBatches(dirty, bsize)
       IN  /\ newResponses' = dirty
           /\ result' = reused
           /\ IF Len(dirty) = 0
              THEN /\ MatchReturnsOk(reused)
                   /\ UNCHANGED <<size, numWorkers, batches, wpc, batchResults, wg>>
              ELSE /\ size' = bsize
                   /\ numWorkers' = EffectiveWorkers(parallelWorkers, Len(dirty), bsize)
                   /\ batches' = bs
                   /\ wpc' = [k \in 1..Len(bs) |-> "spawned"]
                   /\ batchResults' = [k \in 1..Len(bs) |-> <<>>]
                   /\ wg' = Len(bs)
                   /\ pc' = "wait"
                   /\ UNCHANGED <<matchRet, res, ret>>
    /\ semaphore' = 0
    /\ errorsChan' = <<>>
    /\ prev' = PriorAfterReuse(prev, ReusedAnalyses(responses, PreviousAnalyses))
    /\ UNCHANGED <<clientVars, storeVars, workflowVars, llmCache, live, matchInputs, themes, responsesChanged, pending, requests, cfg,
                   sIdx, allResults>>

\* mutant: the send on the semaphore channel never blocks
AcquireWithoutBlocking(k) ==
    /\ pc = "wait"
    /\ wpc[k] = "spawned"
    /\ semaphore' = semaphore + 1
    /\ wpc' = [wpc EXCEPT ![k] = "holding"]
    /\ UNCHANGED <<clientVars, storeVars, workflowVars, llmCache, live, inputVars, runVars, newResponses, size, matchRet, result, batches,
                   numWorkers, batchResults, wg, errorsChan, sIdx, allResults>>

\* line 242: semaphore <- struct{}{} blocks while the channel is full
Acquire(k) ==
    /\ pc = "wait"
    /\ wpc[k] = "spawned"
    /\ semaphore < numWorkers
    /\ semaphore' = semaphore + 1
    /\ wpc' = [wpc EXCEPT ![k] = "holding"]
    /\ UNCHANGED <<clientVars, storeVars, workflowVars, llmCache, live, inputVars, runVars, newResponses, size, matchRet, result, batches,
                   numWorkers, batchResults, wg, errorsChan, sIdx, allResults>>

\* lines 247-258: the batch's completion request; an error goes to errorsChan
CallBatch(k) ==
    /\ pc = "wait"
    /\ wpc[k] = "holding"
    /\ LET q   == MatchRequest(k - 1, batches[k])
           key == PromptKey(q, themes)
       IN  \E ok \in Outcomes(key) :
            /\ Complete(q, key, ok, ModelLines(q.texts))
            /\ IF ok
               THEN /\ batchResults' = [batchResults EXCEPT ![k] =
                            parseBatchResults(Completion(key, ModelLines(q.texts)),
                                              Len(batches[k]), themes)]
                    /\ wpc' = [wpc EXCEPT ![k] = "merge"]
                    /\ errorsChan' = errorsChan
               ELSE /\ errorsChan' = Append(errorsChan, k - 1)
                    /\ wpc' = [wpc EXCEPT ![k] = "exit"]
                    /\ batchResults' = batchResults
    /\ UNCHANGED <<clientVars, storeVars, workflowVars, inputVars, pc, themes, res, responsesChanged, pending, ret, cfg,
                   newResponses, size, matchRet, result, batches, numWorkers,
                   semaphore, wg, sIdx, allResults>>

\* lines 260-285: the batch's analyses are written to the shared map, inside
\* resultMutex (the critical section is one step)
MergeResults(k) ==
    /\ pc = "wait"
    /\ wpc[k] = "merge"
    /\ result' = Merge(result, MakeAnalyses(batches[k], batchResults[k]))
    /\ wpc' = [wpc EXCEPT ![k] = "exit"]
    /\ UNCHANGED <<clientVars, storeVars, workflowVars, llmCache, live, inputVars, runVars, newResponses, size, matchRet, batches,
                   numWorkers, batchResults, semaphore, wg, errorsChan, sIdx, allResults>>

\* mutant: a goroutine whose request failed leaves without freeing its slot
ReleaseAfterSuccess(k) ==
    /\ pc = "wait"
    /\ wpc[k] = "exit"
    /\ semaphore' = IF (k - 1) \in Range(errorsChan) THEN semaphore ELSE semaphore - 1
    /\ wg' = wg - 1
    /\ wpc' = [wpc EXCEPT ![k] = "done"]
    /\ UNCHANGED <<clientVars, storeVars, workflowVars, llmCache, live, inputVars, runVars, newResponses, size, matchRet, result, batches,
                   numWorkers, batchResults, errorsChan, sIdx, allResults>>

\* the deferred calls of lines 239 and 243: <-semaphore, then wg.Done()
Release(k) ==
    /\ pc = "wait"
    /\ wpc[k] = "exit"
    /\ semaphore' = semaphore - 1
    /\ wg' = wg - 1
    /\ wpc' = [wpc EXCEPT ![k] = "done"]
    /\ UNCHANGED <<clientVars, storeVars, workflowVars, llmCache, live, inputVars, runVars, newResponses, size, matchRet, result, batches,
                   numWorkers, batchResults, errorsChan, sIdx, allResults>>

\* mutant: the call returns as soon as an error is in the channel
WaitAllUntilError ==
    /\ pc = "wait"
    /\ wg = 0 \/ Len(errorsChan) > 0
    /\ IF Len(errorsChan) > 0
       THEN MatchReturnsError(errorsChan)
       ELSE MatchReturnsOk(result)
    /\ UNCHANGED <<clientVars, storeVars, workflowVars, llmCache, live, inputVars, themes, responsesChanged, pending, requests, cfg,
                   newResponses, size, result, batches, numWorkers, wpc, batchResults,
                   semaphore, wg, errorsChan, sIdx, allResults>>

\* lines 291-305: wg.Wait(), then the errors are collected
WaitAll ==
    /\ pc = "wait"
    /\ wg = 0
    /\ IF Len(errorsChan) > 0
       THEN MatchReturnsError(errorsChan)
       ELSE MatchReturnsOk(result)
    /\ UNCHANGED <<clientVars, storeVars, workflowVars, llmCache, live, inputVars, themes, responsesChanged, pending, requests, cfg,
                   newResponses, size, result, batches, numWorkers, wpc, batchResults,
                   semaphore, wg, errorsChan, sIdx, allResults>>

\* ------------------------------------------------------------------------
\* AnalyzeResponses: aggregation, change detection, summaries
\* ------------------------------------------------------------------------
Occurrences(t, ths) == Cardinality({j \in DOMAIN ths : ths[j] = t})

RECURSIVE ThemeResponses(_, _, _)
\* the ids appended to a theme's list when the analyses are visited in `order`
ThemeResponses(t, order, analyses) ==
    IF order = <<>> THEN <<>>
    ELSE [j \in 1..Occurrences(t, analyses[Head(order)].themes) |-> Head(order)]
         \o ThemeResponses(t, Tail(order), analyses)

\* mutant: a theme name of an analysis that is not in the list gets a key
BuildThemeAnalysesAddsThemes(analyses, ths, order) ==
    [t \in Range(ths) \cup UNION {Range(analyses[id].themes) : id \in DOMAIN analyses}
        |-> [theme |-> t, responses |-> ThemeResponses(t, order, analyses)]]

\* Analyzer.BuildThemeAnalyses; `order` is the iteration order of the map
BuildThemeAnalyses(analyses, ths, order) ==
    [t \in Range(ths) |-> [theme |-> t, responses |-> ThemeResponses(t, order, analyses)]]

\* mutant: only the counts are compared
ResponsesChangedCountOnly(previousAnalyses, analyses) ==
    Cardinality(DOMAIN previousAnalyses) # Cardinality(DOMAIN analyses)

\* lines 528-537
ResponsesChanged(previousAnalyses, analyses) ==
    \/ Cardinality(DOMAIN previousAnalyses) # Cardinality(DOMAIN analyses)
    \/ \E id \in DOMAIN analyses :
          \/ id \notin DOMAIN previousAnalyses
          \/ previousAnalyses[id].response.hash # analyses[id].response.hash

\* mutant: reuse needs more than two prior theme summaries
ReuseSummariesMoreThanTwo(changed) ==
    ~changed /\ prev.exists /\ Cardinality(DOMAIN prev.themeSummaries) > 2

\* line 540
ReuseSummaries(changed) ==
    ~changed /\ prev.exists /\ Cardinality(DOMAIN prev.themeSummaries) > 0

\* lines 555 and 562: a global summary is generated
NeedsGlobalSummary(c, ths) == Len(ths) > 0 /\ c.summaryLength > 0

DefaultGlobalPrompt == "default global prompt"

\* lines 555-565: the system prompt of the global-summary request
GlobalPrompt(c) ==
    IF c.globalSummaryPrompt # "" THEN c.globalSummaryPrompt ELSE DefaultGlobalPrompt

\* the run continues after the theme summaries
AfterThemeSummaries(c) ==
    /\ pc' = IF NeedsGlobalSummary(c, themes) THEN "global" ELSE "done"
    /\ ret' = IF NeedsGlobalSummary(c, themes) THEN ret ELSE Returned

\* mutant: the loop over the themes ends after any iteration
AllThemesVisitedEarly(rest) == TRUE

\* lines 345-377: the loop of GenerateThemeSummaries ends when no theme with
\* responses is left to visit
AllThemesVisited(rest) == rest = {}

\* lines 525-552: BuildThemeAnalyses, the change detection, and either the
\* reuse of the prior summaries or the start of their generation
Build ==
    /\ pc = "build"
    /\ \E order \in Perms(DOMAIN res.responseAnalyses) :
        LET ta == BuildThemeAnalyses(res.responseAnalyses, themes, order)
            changed == ResponsesChanged(PreviousAnalyses, res.responseAnalyses)
        IN  /\ responsesChanged' = changed
            /\ IF ReuseSummaries(changed)
               THEN /\ res' = [res EXCEPT !.themeAnalyses = ta,
                                          !.themeSummaries = prev.themeSummaries,
                                          !.globalSummary = prev.globalSummary,
                                          !.summary = prev.summary]
                    /\ pc' = "done"
                    /\ ret' = Returned
                    /\ UNCHANGED <<cfg, pending>>
               ELSE /\ res' = [res EXCEPT !.themeAnalyses = ta]
                    /\ \E c \in (IF cfg.read THEN {cfg} ELSE SummaryConfigs) :
                        /\ cfg' = c
                        /\ pending' = IF Len(themes) > 0 /\ c.themeSummaryPrompt # ""
                                      THEN {t \in DOMAIN ta : Len(ta[t].responses) > 0}
                                      ELSE {}
                        /\ IF ~AllThemesVisited(pending')
                           THEN pc' = "summaries" /\ ret' = ret
                           ELSE AfterThemeSummaries(c)
    /\ UNCHANGED <<clientVars, storeVars, workflowVars, llmCache, live, inputVars, matchVars, themes, requests>>

\* the texts GenerateThemeSummaries collects for a theme, lines 351-357
ThemeTexts(t) ==
    LET ids == SelectSeq(res.themeAnalyses[t].responses,
                         LAMBDA id : id \in DOMAIN res.responseAnalyses)
    IN  [j \in 1..Len(ids) |-> res.responseAnalyses[ids[j]].response.text]

ThemeRequest(t) ==
    [kind |-> "theme", idx |-> 0, ids |-> res.themeAnalyses[t].responses,
     texts |-> ThemeTexts(t), theme |-> t, order |-> <<>>]

\* One iteration of the loop of GenerateThemeSummaries (lines 345-377) for a
\* theme with responses; the themes are visited in map order.
GenerateThemeSummary ==
    /\ pc = "summaries"
    /\ \E t \in pending :
        LET q     == ThemeRequest(t)
            key   == PromptKey(q, themes)
            fresh == ModelThemeSummary(t, q.texts)
        IN  \E ok \in Outcomes(key) :
             /\ Complete(q, key, ok, fresh)
             /\ IF ok
                THEN /\ res' = [res EXCEPT !.themeSummaries =
                                    Put(@, t, Completion(key, fresh))]
                     /\ pending' = pending \ {t}
                     /\ IF ~AllThemesVisited(pending')
                        THEN pc' = pc /\ ret' = ret
                        ELSE AfterThemeSummaries(cfg)
                ELSE /\ ret' = Failed("summaries", <<>>)
                     /\ pc' = "done"
                     /\ UNCHANGED <<res, pending>>
    /\ UNCHANGED <<clientVars, storeVars, workflowVars, inputVars, matchVars, themes, responsesChanged, cfg>>

GlobalRequest(order) ==
    [kind |-> "global", idx |-> cfg.summaryLength, ids |-> <<>>, texts |-> <<>>,
     theme |-> GlobalPrompt(cfg), order |-> order]

\* mutant: the legacy field is left as it was
LegacySummaryEmpty(g) == <<>>

\* lines 561 and 570: result.Summary = result.GlobalSummary
LegacySummary(g) == g

\* lines 554-571 with Client.GenerateGlobalSummary, which writes the theme
\* summaries into the prompt in map order
GenerateGlobalSummary ==
    /\ pc = "global"
    /\ \E order \in Perms(DOMAIN res.themeSummaries) :
        LET q     == GlobalRequest(order)
            key   == PromptKey(q, themes)
            fresh == ModelGlobalSummary(order, GlobalPrompt(cfg), cfg.summaryLength)
        IN  \E ok \in Outcomes(key) :
             /\ Complete(q, key, ok, fresh)
             /\ IF ok
                THEN LET g == Completion(key, fresh)
                     IN  /\ res' = [res EXCEPT !.globalSummary = g, !.summary = LegacySummary(g)]
                         /\ ret' = Returned
                ELSE /\ ret' = Failed("global", <<>>)
                     /\ res' = res
    /\ pc' = "done"
    /\ UNCHANGED <<clientVars, storeVars, workflowVars, inputVars, matchVars, themes, responsesChanged, pending, cfg>>

\* ------------------------------------------------------------------------
\* runWorkflow: the end of a run
\* ------------------------------------------------------------------------
\* the state file SaveState writes for a result
StateOf(r) ==
    [exists |-> TRUE, responseAnalyses |-> r.responseAnalyses,
     themeSummaries |-> r.themeSummaries, globalSummary |-> r.globalSummary,
     summary |-> r.summary]

\* a state file the write left empty
Truncated == [NoPrev EXCEPT !.exists = TRUE]

\* mutant: the state is saved whatever AnalyzeResponses returned
WritesStateAlways(r) == TRUE

\* part_003 lines 248-250: an error of AnalyzeResponses ends the workflow
WritesState(r) == r.status = "ok"

\* part_003 lines 248-255: the workflow returns the error of the analysis, or
\* saves the result; os.WriteFile either writes the file, leaves it, or
\* leaves it truncated
SaveState ==
    /\ pc = "done"
    /\ pc' = "exit"
    /\ IF WritesState(ret)
       THEN stateFile' \in {StateOf(res), stateFile, Truncated}
       ELSE stateFile' = stateFile
    /\ UNCHANGED <<clientVars, storeVars, llmCache, live, inputVars, matchVars, run, firstRun,
                   identifyThemesOnly, prevThemes, themesFile,
                   themes, res, responsesChanged, pending, ret, requests, cfg>>

\* AnalyzeResponses is called again with the same responses, the same
\* configuration and no previous result, on the client of the first run or
\* on one whose cache was loaded from the entries the first run persisted
Rerun ==
    /\ pc = "done"
    /\ ret.status = "ok"
    /\ run = 1
    /\ ~prev.exists
    /\ run' = 2
    /\ firstRun' = [exists |-> TRUE, themes |-> themes, res |-> res]
    /\ pc' = IF cfgThemes = <<>> THEN "identify" ELSE "match"
    /\ themes' = cfgThemes
    /\ res' = EmptyResult
    /\ responsesChanged' = FALSE
    /\ pending' = {}
    /\ ret' = Running
    /\ requests' = {}
    /\ live' = {}
    /\ newResponses' = <<>>
    /\ size' = 0
    /\ matchRet' = NoMatchRet
    /\ result' = EmptyMap
    /\ batches' = <<>>
    /\ numWorkers' = 0
    /\ wpc' = <<>>
    /\ batchResults' = <<>>
    /\ semaphore' = 0
    /\ wg' = 0
    /\ errorsChan' = <<>>
    /\ sIdx' = 0
    /\ allResults' = <<>>
    /\ UNCHANGED <<clientVars, storeVars, llmCache, inputVars, cfg, stateFile,
                   identifyThemesOnly, prevThemes, themesFile>>

\* the theme list of the state file of an earlier run
PriorThemeList == <<"T2", "T9">>

\* part_003 line 148: the workflow only identifies themes
IdentifyOnlyMode ==
    identifyThemesOnly \/ (Len(cfgThemes) = 0 /\ (~prev.exists \/ Len(prevThemes) = 0))

\* mutant: the themes of the previous state are never used
SuppliedThemesConfigOnly == cfgThemes

\* part_003 lines 192-229: the themes runWorkflow passes to AnalyzeResponses
SuppliedThemes ==
    IF Len(cfgThemes) > 0 THEN cfgThemes
    ELSE IF prev.exists /\ Len(prevThemes) > 0 THEN prevThemes
    ELSE <<>>

\* runWorkflow, part_003 lines 147-229: either the identification of themes
\* alone, or AnalyzeResponses with the themes of the configuration or else of
\* the previous state; AnalyzeResponses asks the model for the themes when it
\* is given none (part_001 lines 494-501)
RunWorkflow ==
    /\ pc = "start"
    /\ IF IdentifyOnlyMode
       THEN /\ pc' = "identifyOnly"
            /\ themes' = themes
       ELSE /\ themes' = SuppliedThemes
            /\ pc' = IF Len(themes') = 0 THEN "identify" ELSE "match"
    /\ UNCHANGED <<clientVars, storeVars, workflowVars, llmCache, live, inputVars, matchVars,
                   res, responsesChanged, pending, ret, requests, cfg>>

\* mutant: the analysis goes on with the identified themes
AfterIdentification == "match"

\* part_003 line 181: the workflow returns after the identification
AfterIdentifyOnly == "exit"

\* part_003 lines 149-181: IdentifyThemesOnly, the themes are printed and
\* written to themes.yaml (a failure to write is logged), and the workflow
\* returns; an error of the identification is returned (lines 154-156)
IdentifyThemesOnly ==
    /\ pc = "identifyOnly"
    /\ LET key == PromptKey(IdentifyRequest, themes)
       IN  \E ok \in Outcomes(key), th \in IdentifiedThemes, wrote \in BOOLEAN :
            /\ Complete(IdentifyRequest, key, ok, th)
            /\ IF ok
               THEN /\ themesFile' = IF wrote THEN Completion(key, th) ELSE themesFile
                    /\ themes' = IF AfterIdentifyOnly = "exit" THEN themes ELSE Completion(key, th)
                    /\ pc' = AfterIdentifyOnly
                    /\ ret' = ret
               ELSE /\ themesFile' = themesFile
                    /\ themes' = themes
                    /\ pc' = "exit"
                    /\ ret' = Failed("identify", <<>>)
    /\ UNCHANGED <<clientVars, storeVars, run, firstRun, stateFile, identifyThemesOnly, prevThemes,
                   inputVars, matchVars, res, responsesChanged, pending, cfg>>

\* ------------------------------------------------------------------------
\* Client.GetCompletion
\* ------------------------------------------------------------------------
\* Strings that matter as text are sequences of pieces.
DefaultModel == <<"claude-3-opus-20240229">>
HaikuModel == <<"claude-3-haiku-20240307">>
DefaultMaxTokens == 4096
MaxRetries == 3
StatusOK == 200
StatusTooManyRequests == 429
\* httpClient.Do returned an error: there is no response
TransportError == 0

Digit(d) == <<"0", "1", "2", "3", "4", "5", "6", "7", "8", "9">>[d + 1]

RECURSIVE Itoa(_)
\* %d of fmt.Sprintf
Itoa(n) == IF n < 10 THEN <<Digit(n)>> ELSE Itoa(n \div 10) \o <<Digit(n % 10)>>

\* line 176: fmt.Sprintf("%s:%s:%d:%s", c.model, systemPrompt, maxTokens, prompt)
CacheKey(m, systemPrompt, maxTokens, prompt) ==
    m \o <<":">> \o systemPrompt \o <<":">> \o Itoa(maxTokens) \o <<":">> \o prompt

\* ModelCostPerMillionTokens, in 1e-8 dollars per token
ModelCost(m) ==
    IF m = <<"claude-3-opus-20240229">> THEN [input |-> 1500, output |-> 7500]
    ELSE IF m \in {<<"claude-3-sonnet-20240229">>, <<"claude-3-7-sonnet-20250219">>}
    THEN [input |-> 300, output |-> 1500]
    ELSE IF m = <<"claude-3-haiku-20240307">> THEN [input |-> 25, output |-> 125]
    ELSE IF m \in {<<"claude-2.1">>, <<"claude-2.0">>} THEN [input |-> 800, output |-> 2400]
    ELSE [input |-> 1500, output |-> 7500]

\* CalculateCost
CalculateCost(m, inputTokens, outputTokens) ==
    [totalTokens |-> inputTokens + outputTokens,
     cost |-> inputTokens * ModelCost(m).input + outputTokens * ModelCost(m).output]

\* mutant: the delay before the first request is left out
RateLimitSleepNone(base) == <<>>

\* lines 191-195: the delay before the first request
RateLimitSleep(base) ==
    IF base > 0 THEN <<[kind |-> "ratelimit", d |-> base]>> ELSE <<>>

\* mutant: the backoff grows linearly
BackoffDelayLinear(base, r) == base * (r + 1)

\* line 310: baseDelay * time.Duration(1<<retry)
BackoffDelay(base, r) == base * (2 ^ r)

\* mutant: every non-success response is retried
ShouldRetryAnyFailure(status, r) == status # StatusOK /\ status # TransportError /\ r < MaxRetries

\* line 292
ShouldRetry(status, r) == status = StatusTooManyRequests /\ r < MaxRetries

\* what the API can answer to one attempt
Statuses == {StatusOK, StatusTooManyRequests, 500, TransportError}
Completions == {<<"x">>, <<"y">>}
ErrorMessages == {<<"overloaded">>}

Prompts == {<<"p">>, <<"q">>}
SystemPrompts == {<<>>, <<"s">>}

NoReturn == [kind |-> "none", status |-> 0, text |-> <<>>]

ClientCounters == [cache |-> cache, totalTokens |-> totalTokens, totalCost |-> totalCost]

\* lines 174-182: the cache lookup; a hit returns at once
GetCompletion ==
    /\ cpc = "idle"
    /\ calls < MaxCalls
    /\ calls' = calls + 1
    /\ \E prompt \in Prompts, systemPrompt \in SystemPrompts :
        LET key == CacheKey(model, systemPrompt, DefaultMaxTokens, prompt)
        IN  /\ cacheKey' = key
            /\ IF cacheEnabled /\ key \in DOMAIN cache
               THEN /\ cret' = [kind |-> "cached", status |-> 0, text |-> cache[key]]
                    /\ cpc' = "idle"
               ELSE /\ cret' = NoReturn
                    /\ cpc' = "delay"
    /\ retry' = 0
    /\ statuses' = <<>>
    /\ sleeps' = <<>>
    /\ atEntry' = ClientCounters
    /\ UNCHANGED <<analyzerVars, storeVars, workflowVars, llmCache, live, model, rateLimitDelay, cacheEnabled, cache,
                   totalTokens, totalCost>>

\* lines 191-195: time.Sleep(c.rateLimitDelay)
ApplyRateLimitDelay ==
    /\ cpc = "delay"
    /\ sleeps' = sleeps \o RateLimitSleep(rateLimitDelay)
    /\ cpc' = "send"
    /\ UNCHANGED <<analyzerVars, storeVars, workflowVars, llmCache, live, model, rateLimitDelay, cacheEnabled, cache, totalTokens,
                   totalCost, cacheKey, retry, statuses, atEntry, cret, calls>>

\* One iteration of the retry loop, lines 237-349, and the return after the
\* loop, lines 351-352.
Attempt ==
    /\ cpc = "send"
    /\ IF retry > MaxRetries
       THEN /\ cret' = [kind |-> "exhausted", status |-> MaxRetries, text |-> <<>>]
            /\ cpc' = "idle"
            /\ UNCHANGED <<cache, totalTokens, totalCost, retry, statuses, sleeps>>
       ELSE \E status \in Statuses :
            /\ statuses' = Append(statuses, status)
            /\ IF status = TransportError
               THEN /\ cret' = [kind |-> "transport", status |-> 0, text |-> <<>>]
                    /\ cpc' = "idle"
                    /\ UNCHANGED <<cache, totalTokens, totalCost, retry, sleeps>>
               ELSE IF status = StatusOK
               THEN \E text \in Completions, inputTokens \in 1..MaxUsage, outputTokens \in 1..MaxUsage :
                    LET cost == CalculateCost(model, inputTokens, outputTokens)
                    IN  /\ cache' = IF cacheEnabled THEN Put(cache, cacheKey, text) ELSE cache
                        /\ totalCost' = totalCost + cost.cost
                        /\ totalTokens' = totalTokens + cost.totalTokens
                        /\ cret' = [kind |-> "ok", status |-> status, text |-> text]
                        /\ cpc' = "idle"
                        /\ UNCHANGED <<retry, sleeps>>
               ELSE IF ShouldRetry(status, retry)
               THEN /\ sleeps' = Append(sleeps, [kind |-> "backoff",
                                                 d |-> BackoffDelay(rateLimitDelay, retry)])
                    /\ retry' = retry + 1
                    /\ UNCHANGED <<cache, totalTokens, totalCost, cret, cpc>>
               ELSE \E msg \in ErrorMessages :
                    /\ cret' = [kind |-> "upstream", status |-> status, text |-> msg]
                    /\ cpc' = "idle"
                    /\ UNCHANGED <<cache, totalTokens, totalCost, retry, sleeps>>
    /\ UNCHANGED <<analyzerVars, storeVars, workflowVars, llmCache, live, model, rateLimitDelay, cacheEnabled, cacheKey, atEntry, calls>>

\* NewClient, lines 142-161, without a call in progress
ClientIdle ==
    /\ model = DefaultModel
    /\ rateLimitDelay = 1
    /\ cacheEnabled = TRUE
    /\ cache = EmptyMap
    /\ totalTokens = 0
    /\ totalCost = 0
    /\ cpc = "idle"
    /\ cacheKey = <<>>
    /\ retry = 0
    /\ statuses = <<>>
    /\ sleeps = <<>>
    /\ atEntry = ClientCounters
    /\ cret = NoReturn
    /\ calls = 0

\* ------------------------------------------------------------------------
\* Cache
\* ------------------------------------------------------------------------
\* the time-to-live runWorkflow passes to NewCache (24 hours), the unit of the clock
TTL == 1

\* the clock runs until one time-to-live has passed and one unit more
MaxTime == TTL + 1

Keys == {"k1"}
Values == {"v1", "v2"}

\* hashKey: the hex digest of the key, equal exactly for equal keys
hashKey(key) == <<"sha256", key>>

NoEntry == [key |-> "", value |-> "", createdAt |-> 0, expiresAt |-> 0]

\* a thread's locals and what its last call returned
NoLocals == [op |-> "", key |-> "", value |-> "", entry |-> NoEntry,
             found |-> FALSE, result |-> "", err |-> FALSE]

\* mutant: entries never expire
ExpiredNever(entry, t) == FALSE

\* lines 76 and 196: time.Now().After(entry.ExpiresAt)
Expired(entry, t) == t > entry.expiresAt

\* a map without the key h
Without(m, h) == [x \in DOMAIN m \ {h} |-> m[x]]

\* what an earlier process left in the cache directory
InitialFiles ==
    {EmptyMap,
     [h \in {hashKey("k1")} |-> [key |-> "k1", value |-> "v0", createdAt |-> 0, expiresAt |-> TTL]]}

\* loadEntries has not run
NoStartup == [listed |-> FALSE, skipped |-> {}]

\* loadEntries, lines 180-207: the entries of the files that can be read and
\* have not expired
LoadedEntries(readable) ==
    [h \in {hashKey(files[f].key) : f \in {g \in readable : ~Expired(files[g], now)}}
        |-> files[h]]

\* the ghost of the loaded entries: their values and write times
LoadedWrites(es) ==
    [k \in {es[h].key : h \in DOMAIN es} |->
        [value |-> es[hashKey(k)].value, at |-> es[hashKey(k)].createdAt, err |-> FALSE]]

\* the frame of the cache actions
NotCache == <<analyzerVars, clientVars, llmCache, live, workflowVars, workerVars>>

\* NewCache (lines 35-59) as runWorkflow calls it (part_003 lines 85-92):
\* MkdirAll can fail, which ends the workflow; loadEntries can fail as a whole
\* or for single files, which is logged
NewCache ==
    /\ cstatus = "none"
    /\ \E p \in BOOLEAN, mkdirOk \in BOOLEAN, globOk \in BOOLEAN,
          readable \in SUBSET DOMAIN files, removable \in SUBSET DOMAIN files :
        /\ persisted' = p
        /\ startup' = IF p /\ mkdirOk
                      THEN [listed |-> globOk,
                            skipped |-> IF globOk THEN DOMAIN files \ readable ELSE {}]
                      ELSE NoStartup
        /\ IF p /\ ~mkdirOk
           THEN /\ cstatus' = "error"
                /\ workflowErr' = "failed to initialize cache"
                /\ UNCHANGED <<entries, files, written>>
           ELSE /\ cstatus' = "ok"
                /\ workflowErr' = ""
                /\ IF p /\ globOk
                   THEN /\ entries' = LoadedEntries(readable)
                        /\ files' = [h \in DOMAIN files \
                                        {g \in readable \cap removable : Expired(files[g], now)}
                                        |-> files[h]]
                        /\ written' = LoadedWrites(entries')
                   ELSE UNCHANGED <<entries, files, written>>
    /\ UNCHANGED <<NotCache, proc, saved, ttl, now, mutex, tpc, tloc, removes, ops, fatal>>

\* a thread may start a call
MayCall(t) ==
    /\ cstatus = "ok"
    /\ ~fatal
    /\ tpc[t] = "idle"
    /\ ops < MaxOps

\* the deferred RUnlock of Get
RUnlock(t) == mutex' = [mutex EXCEPT !.readers = @ \ {t}]

\* the deferred Unlock of Set and Clear
Unlock(t) == mutex' = [mutex EXCEPT !.writer = 0]

\* Get, lines 62-67: RLock
GetBegin(t, k) ==
    /\ MayCall(t)
    /\ mutex.writer = 0
    /\ mutex' = [mutex EXCEPT !.readers = @ \cup {t}]
    /\ tloc' = [tloc EXCEPT ![t] = [NoLocals EXCEPT !.op = "get", !.key = k]]
    /\ tpc' = [tpc EXCEPT ![t] = "get_lookup"]
    /\ ops' = ops + 1
    /\ UNCHANGED <<NotCache, processVars, cstatus, workflowErr, persisted, ttl, entries, files, now, removes,
                   written, fatal>>

\* Get, lines 70-73: the index is read
GetLookup(t) ==
    /\ ~fatal
    /\ tpc[t] = "get_lookup"
    /\ LET h == hashKey(tloc[t].key)
       IN  IF h \in DOMAIN entries
           THEN /\ tloc' = [tloc EXCEPT ![t].entry = entries[h]]
                /\ tpc' = [tpc EXCEPT ![t] = "get_check"]
                /\ mutex' = mutex
           ELSE /\ tloc' = tloc
                /\ tpc' = [tpc EXCEPT ![t] = "idle"]
                /\ RUnlock(t)
    /\ UNCHANGED <<NotCache, processVars, cstatus, workflowErr, persisted, ttl, entries, files, now, removes,
                   ops, written, fatal>>

\* Get, lines 76 and 91-92: the expiry test, and the hit
GetCheck(t) ==
    /\ ~fatal
    /\ tpc[t] = "get_check"
    /\ IF Expired(tloc[t].entry, now)
       THEN /\ tpc' = [tpc EXCEPT ![t] = "get_delete"]
            /\ UNCHANGED <<tloc, mutex>>
       ELSE /\ tloc' = [tloc EXCEPT ![t].found = TRUE, ![t].result = tloc[t].entry.value]
            /\ tpc' = [tpc EXCEPT ![t] = "idle"]
            /\ RUnlock(t)
    /\ UNCHANGED <<NotCache, processVars, cstatus, workflowErr, persisted, ttl, entries, files, now, removes,
                   ops, written, fatal>>

\* Get, lines 78-88: the expired entry is deleted from the index, under the
\* read lock, and the removal of its file is started
GetDelete(t) ==
    /\ ~fatal
    /\ tpc[t] = "get_delete"
    /\ entries' = Without(entries, hashKey(tloc[t].key))
    /\ removes' = IF persisted THEN removes \cup {hashKey(tloc[t].key)} ELSE removes
    /\ tpc' = [tpc EXCEPT ![t] = "idle"]
    /\ RUnlock(t)
    /\ UNCHANGED <<NotCache, processVars, cstatus, workflowErr, persisted, ttl, files, now, tloc, ops,
                   written, fatal>>

\* the goroutine of lines 81-86: os.Remove, whose failure is logged
RemoveFile ==
    /\ \E h \in removes, ok \in BOOLEAN :
        /\ removes' = removes \ {h}
        /\ files' = IF ok /\ h \in DOMAIN files THEN Without(files, h) ELSE files
    /\ UNCHANGED <<NotCache, processVars, cstatus, workflowErr, persisted, ttl, entries, now, mutex, tpc, tloc,
                   ops, written, fatal>>

\* Set, lines 96-98: Lock
SetBegin(t, k, v) ==
    /\ MayCall(t)
    /\ mutex.writer = 0
    /\ mutex.readers = {}
    /\ mutex' = [mutex EXCEPT !.writer = t]
    /\ tloc' = [tloc EXCEPT ![t] = [NoLocals EXCEPT !.op = "set", !.key = k, !.value = v]]
    /\ tpc' = [tpc EXCEPT ![t] = "set_store"]
    /\ ops' = ops + 1
    /\ UNCHANGED <<NotCache, processVars, cstatus, workflowErr, persisted, ttl, entries, files, now, removes,
                   written, fatal>>

\* mutant: with persistence on, the index is left for the persisted entry
SetStoreAfterPersist(t) ==
    /\ ~fatal
    /\ tpc[t] = "set_store"
    /\ LET entry == [key |-> tloc[t].key, value |-> tloc[t].value,
                     createdAt |-> now, expiresAt |-> now + ttl]
       IN  /\ entries' = IF persisted THEN entries
                         ELSE Put(entries, hashKey(tloc[t].key), entry)
           /\ written' = Put(written, tloc[t].key,
                             [value |-> tloc[t].value, at |-> now, err |-> FALSE])
           /\ tloc' = [tloc EXCEPT ![t].entry = entry]
    /\ IF persisted
       THEN tpc' = [tpc EXCEPT ![t] = "set_persist"] /\ mutex' = mutex
       ELSE tpc' = [tpc EXCEPT ![t] = "idle"] /\ Unlock(t)
    /\ UNCHANGED <<NotCache, processVars, cstatus, workflowErr, persisted, ttl, files, now, removes, ops, fatal>>

\* Set, lines 104-113 and, without persistence, 122-123: the entry is made
\* and stored in the index
SetStore(t) ==
    /\ ~fatal
    /\ tpc[t] = "set_store"
    /\ LET entry == [key |-> tloc[t].key, value |-> tloc[t].value,
                     createdAt |-> now, expiresAt |-> now + ttl]
       IN  /\ entries' = Put(entries, hashKey(tloc[t].key), entry)
           /\ written' = Put(written, tloc[t].key,
                             [value |-> tloc[t].value, at |-> now, err |-> FALSE])
           /\ tloc' = [tloc EXCEPT ![t].entry = entry]
    /\ IF persisted
       THEN tpc' = [tpc EXCEPT ![t] = "set_persist"] /\ mutex' = mutex
       ELSE tpc' = [tpc EXCEPT ![t] = "idle"] /\ Unlock(t)
    /\ UNCHANGED <<NotCache, processVars, cstatus, workflowErr, persisted, ttl, files, now, removes, ops, fatal>>

\* Set, lines 116-123, with persistEntry: the file is written, or the error
\* is returned
SetPersist(t) ==
    /\ ~fatal
    /\ tpc[t] = "set_persist"
    /\ \E ok \in BOOLEAN :
        /\ files' = IF ok THEN Put(files, hashKey(tloc[t].key), tloc[t].entry) ELSE files
        /\ tloc' = [tloc EXCEPT ![t].err = ~ok]
        /\ written' = [written EXCEPT ![tloc[t].key].err = ~ok]
    /\ tpc' = [tpc EXCEPT ![t] = "idle"]
    /\ Unlock(t)
    /\ UNCHANGED <<NotCache, processVars, cstatus, workflowErr, persisted, ttl, entries, now, removes, ops, fatal>>

\* Clear, lines 127-129: Lock
ClearBegin(t) ==
    /\ MayCall(t)
    /\ mutex.writer = 0
    /\ mutex.readers = {}
    /\ mutex' = [mutex EXCEPT !.writer = t]
    /\ tloc' = [tloc EXCEPT ![t] = [NoLocals EXCEPT !.op = "clear"]]
    /\ tpc' = [tpc EXCEPT ![t] = "clear"]
    /\ ops' = ops + 1
    /\ UNCHANGED <<NotCache, processVars, cstatus, workflowErr, persisted, ttl, entries, files, now, removes,
                   written, fatal>>

\* Clear, lines 132-149: a new index, and the files that can be removed are
\* removed
ClearAll(t) ==
    /\ ~fatal
    /\ tpc[t] = "clear"
    /\ entries' = EmptyMap
    /\ written' = EmptyMap
    /\ IF persisted
       THEN \E globOk \in BOOLEAN, removed \in SUBSET DOMAIN files :
              /\ files' = IF globOk THEN [h \in DOMAIN files \ removed |-> files[h]] ELSE files
              /\ tloc' = [tloc EXCEPT ![t].err = ~globOk]
       ELSE UNCHANGED <<files, tloc>>
    /\ tpc' = [tpc EXCEPT ![t] = "idle"]
    /\ Unlock(t)
    /\ UNCHANGED <<NotCache, processVars, cstatus, workflowErr, persisted, ttl, now, removes, ops, fatal>>

\* time passes
Tick ==
    /\ now < MaxTime
    /\ now' = now + 1
    /\ UNCHANGED <<NotCache, processVars, cstatus, workflowErr, persisted, ttl, entries, files, mutex, tpc,
                   tloc, removes, ops, written, fatal>>

\* the positions at which a thread writes the index, and at which it reads
\* or writes it
AtIndexWrite(t) == tpc[t] \in {"get_delete", "set_store", "clear"}
AtIndexAccess(t) == AtIndexWrite(t) \/ tpc[t] = "get_lookup"

\* two threads are at the index at once, one of them to write it
Racing == \E t, u \in DOMAIN tpc : t # u /\ AtIndexWrite(t) /\ AtIndexAccess(u)

\* An unsynchronized access to a Go map while it is written: the runtime may
\* stop the process ("fatal error: concurrent map read and map write"), or
\* the accesses may go through one after the other.
MapFault ==
    /\ ~fatal
    /\ Racing
    /\ fatal' = TRUE
    /\ UNCHANGED <<NotCache, processVars, cstatus, workflowErr, persisted, ttl, entries, files, now, mutex,
                   tpc, tloc, removes, ops, written>>

NextCache ==
    \/ NewCache
    \/ \E t \in DOMAIN tpc, k \in Keys : GetBegin(t, k)
    \/ \E t \in DOMAIN tpc : GetLookup(t)
    \/ \E t \in DOMAIN tpc : GetCheck(t)
    \/ \E t \in DOMAIN tpc : GetDelete(t)
    \/ RemoveFile
    \/ \E t \in DOMAIN tpc, k \in Keys, v \in Values : SetBegin(t, k, v)
    \/ \E t \in DOMAIN tpc : SetStore(t)
    \/ \E t \in DOMAIN tpc : SetPersist(t)
    \/ \E t \in DOMAIN tpc : ClearBegin(t)
    \/ \E t \in DOMAIN tpc : ClearAll(t)
    \/ Tick
    \/ MapFault


\* no Cache object has been made
CacheIdle ==
    /\ cstatus = "none"
    /\ workflowErr = ""
    /\ persisted = FALSE
    /\ ttl = TTL
    /\ entries = EmptyMap
    /\ files = EmptyMap
    /\ now = 0
    /\ mutex = [readers |-> {}, writer |-> 0]
    /\ tpc = <<>>
    /\ tloc = <<>>
    /\ removes = {}
    /\ ops = 0
    /\ written = EmptyMap
    /\ fatal = FALSE
    /\ proc = 1
    /\ saved = EmptyMap
    /\ startup = NoStartup

\* no concurrent calls
WorkersIdle ==
    /\ gpc = <<>>
    /\ gloc = <<>>
    /\ completed = <<>>

\* an analyzer that is not running
AnalyzerIdle ==
    /\ llmCache = EmptyMap
    /\ live = {}
    /\ run = 1
    /\ firstRun = NoFirst
    /\ stateFile = NoPrev
    /\ identifyThemesOnly = FALSE
    /\ prevThemes = <<>>
    /\ themesFile = NoThemesFile
    /\ responses = <<>>
    /\ prev = NoPrev
    /\ cfgThemes = ConfigThemes
    /\ cfg = ConfigUnread
    /\ useParallel = TRUE
    /\ batchSize = 1
    /\ parallelWorkers = 1
    /\ pc = "idle"
    /\ themes = ConfigThemes
    /\ res = EmptyResult
    /\ responsesChanged = FALSE
    /\ pending = {}
    /\ ret = Running
    /\ requests = {}
    /\ newResponses = <<>>
    /\ size = 0
    /\ matchRet = NoMatchRet
    /\ result = EmptyMap
    /\ batches = <<>>
    /\ numWorkers = 0
    /\ wpc = <<>>
    /\ batchResults = <<>>
    /\ semaphore = 0
    /\ wg = 0
    /\ errorsChan = <<>>
    /\ sIdx = 0
    /\ allResults = <<>>

\* NewClient, SetModel and SetRateLimitDelay, with or without a cache
InitClient ==
    /\ NoCall
    /\ AnalyzerIdle
    /\ CacheIdle
    /\ WorkersIdle
    /\ model \in {DefaultModel, HaikuModel}
    /\ rateLimitDelay \in 0..MaxDelay
    /\ cacheEnabled \in BOOLEAN
    /\ cache = EmptyMap
    /\ totalTokens = 0
    /\ totalCost = 0
    /\ cpc = "idle"
    /\ cacheKey = <<>>
    /\ retry = 0
    /\ statuses = <<>>
    /\ sleeps = <<>>
    /\ atEntry = ClientCounters
    /\ cret = NoReturn
    /\ calls = 0

NextClient ==
    \/ GetCompletion
    \/ ApplyRateLimitDelay
    \/ Attempt

\* calls of GetCompletion on one client, one after the other
SpecClient == InitClient /\ [][NextClient]_vars

\* ------------------------------------------------------------------------
\* GetCompletion called by the goroutines of the parallel matching
\* ------------------------------------------------------------------------
\* Each goroutine of MatchResponsesToThemesParallel calls the one Client
\* (part_001 lines 238-258). The Client has no lock of its own: the two "+="
\* of lines 279-280 are each a load and a store of the field.
NoCost == [cost |-> 0, tokens |-> 0, loaded |-> 0]

\* the prompt of the k-th concurrent call
WorkerPrompt(k) == <<"batch", Digit(k)>>

\* as many calls in flight as the semaphore admits
InitWorkers ==
    /\ NoCall
    /\ AnalyzerIdle
    /\ CacheIdle
    /\ model \in {DefaultModel, HaikuModel}
    /\ rateLimitDelay = 0
    /\ cacheEnabled = TRUE
    /\ cache = EmptyMap
    /\ totalTokens = 0
    /\ totalCost = 0
    /\ cpc = "idle"
    /\ cacheKey = <<>>
    /\ retry = 0
    /\ statuses = <<>>
    /\ sleeps = <<>>
    /\ atEntry = ClientCounters
    /\ cret = NoReturn
    /\ calls = 0
    /\ \E n \in 1..MaxWorkers :
        /\ gpc = [k \in 1..n |-> "receive"]
        /\ gloc = [k \in 1..n |-> NoCost]
    /\ completed = <<>>

\* lines 253-276: the 200 response of the call arrives, its text is cached
\* (Cache.Set takes the cache's own lock) and its cost is calculated
Receive(k) ==
    /\ gpc[k] = "receive"
    /\ \E text \in Completions, inputTokens \in 1..MaxUsage, outputTokens \in 1..MaxUsage :
        LET cost == CalculateCost(model, inputTokens, outputTokens)
        IN  /\ cache' = Put(cache, CacheKey(model, <<>>, DefaultMaxTokens, WorkerPrompt(k)), text)
            /\ gloc' = [gloc EXCEPT ![k] = [cost |-> cost.cost, tokens |-> cost.totalTokens,
                                            loaded |-> 0]]
            /\ completed' = Append(completed, cost)
    /\ gpc' = [gpc EXCEPT ![k] = "loadCost"]
    /\ UNCHANGED <<analyzerVars, llmCache, live, workflowVars, cacheObjVars, model, rateLimitDelay,
                   cacheEnabled, totalTokens, totalCost, cpc, cacheKey, retry, statuses, sleeps,
                   atEntry, cret, calls>>

\* line 279, c.totalCost += cost.Cost: the field is read
LoadCost(k) ==
    /\ gpc[k] = "loadCost"
    /\ gloc' = [gloc EXCEPT ![k].loaded = totalCost]
    /\ gpc' = [gpc EXCEPT ![k] = "storeCost"]
    /\ UNCHANGED <<analyzerVars, llmCache, live, workflowVars, cacheObjVars, clientVars, completed>>

\* line 279: the sum is written
StoreCost(k) ==
    /\ gpc[k] = "storeCost"
    /\ totalCost' = gloc[k].loaded + gloc[k].cost
    /\ gpc' = [gpc EXCEPT ![k] = "loadTokens"]
    /\ UNCHANGED <<analyzerVars, llmCache, live, workflowVars, cacheObjVars, model, rateLimitDelay,
                   cacheEnabled, cache, totalTokens, cpc, cacheKey, retry, statuses, sleeps,
                   atEntry, cret, calls, gloc, completed>>

\* line 280, c.totalTokens += cost.TotalTokens: the field is read
LoadTokens(k) ==
    /\ gpc[k] = "loadTokens"
    /\ gloc' = [gloc EXCEPT ![k].loaded = totalTokens]
    /\ gpc' = [gpc EXCEPT ![k] = "storeTokens"]
    /\ UNCHANGED <<analyzerVars, llmCache, live, workflowVars, cacheObjVars, clientVars, completed>>

\* line 280: the sum is written, and the call returns
StoreTokens(k) ==
    /\ gpc[k] = "storeTokens"
    /\ totalTokens' = gloc[k].loaded + gloc[k].tokens
    /\ gpc' = [gpc EXCEPT ![k] = "returned"]
    /\ UNCHANGED <<analyzerVars, llmCache, live, workflowVars, cacheObjVars, model, rateLimitDelay,
                   cacheEnabled, cache, totalCost, cpc, cacheKey, retry, statuses, sleeps,
                   atEntry, cret, calls, gloc, completed>>

NextWorkers ==
    \/ \E k \in DOMAIN gpc : Receive(k)
    \/ \E k \in DOMAIN gpc : LoadCost(k)
    \/ \E k \in DOMAIN gpc : StoreCost(k)
    \/ \E k \in DOMAIN gpc : LoadTokens(k)
    \/ \E k \in DOMAIN gpc : StoreTokens(k)

SpecWorkers == InitWorkers /\ [][NextWorkers]_vars

\* a process before NewCache, with what an earlier one left on disk
InitCache ==
    /\ NoCall
    /\ AnalyzerIdle
    /\ ClientIdle
    /\ WorkersIdle
    /\ cstatus = "none"
    /\ workflowErr = ""
    /\ persisted = FALSE
    /\ ttl = TTL
    /\ entries = EmptyMap
    /\ files \in InitialFiles
    /\ now = 0
    /\ mutex = [readers |-> {}, writer |-> 0]
    /\ tpc = [t \in 1..MaxThreads |-> "idle"]
    /\ tloc = [t \in 1..MaxThreads |-> NoLocals]
    /\ removes = {}
    /\ ops = 0
    /\ written = EmptyMap
    /\ fatal = FALSE
    /\ proc = 1
    /\ saved = EmptyMap
    /\ startup = NoStartup

SpecCache == InitCache /\ [][NextCache]_vars

\* The process ends with no call of the cache under way, and a later process
\* starts on the same cache directory: the index, the lock and the pending
\* removals are gone, the files stay.
Restart ==
    /\ proc = 1
    /\ cstatus = "ok"
    /\ ~fatal
    /\ \A t \in DOMAIN tpc : tpc[t] = "idle"
    /\ proc' = 2
    /\ saved' = [k \in {x \in DOMAIN written : persisted /\ ~written[x].err} |-> written[k]]
    /\ startup' = NoStartup
    /\ cstatus' = "none"
    /\ persisted' = FALSE
    /\ entries' = EmptyMap
    /\ written' = EmptyMap
    /\ removes' = {}
    /\ tloc' = [t \in DOMAIN tloc |-> NoLocals]
    /\ UNCHANGED <<NotCache, workflowErr, ttl, files, now, mutex, tpc, ops, fatal>>

NextRestart ==
    \/ NextCache
    \/ Restart

SpecRestart == InitCache /\ [][NextRestart]_vars

Init == InitRun /\ ClientIdle /\ CacheIdle /\ WorkersIdle

\* ------------------------------------------------------------------------
\* Specification of one run of AnalyzeResponses
\* ------------------------------------------------------------------------
Next ==
    \/ IdentifyThemes
    \/ MatchResponsesToThemes
    \/ SerialBatch
    \/ SerialReturn
    \/ MatchResponsesToThemesParallel
    \/ \E k \in DOMAIN wpc : Acquire(k)
    \/ \E k \in DOMAIN wpc : CallBatch(k)
    \/ \E k \in DOMAIN wpc : MergeResults(k)
    \/ \E k \in DOMAIN wpc : Release(k)
    \/ WaitAll
    \/ Build
    \/ GenerateThemeSummary
    \/ GenerateGlobalSummary
    \/ SaveState

Spec == Init /\ [][Next]_vars

\* two runs on the same input without a previous result
InitTwice == Init /\ ~prev.exists

NextTwice ==
    \/ Next
    \/ Rerun

SpecTwice == InitTwice /\ [][NextTwice]_vars

\* the state in which runWorkflow has read the flag, the configuration, the
\* responses and the previous state
InitWorkflow ==
    /\ NoCall
    /\ ClientIdle
    /\ CacheIdle
    /\ WorkersIdle
    /\ responses \in InputResponses
    /\ prev \in PrevChoices(Len(responses))
    /\ cfgThemes \in {<<>>, ConfigThemes}
    /\ identifyThemesOnly \in BOOLEAN
    /\ prevThemes \in (IF prev.exists THEN {<<>>, PriorThemeList} ELSE {<<>>})
    /\ themesFile = NoThemesFile
    /\ cfg = ConfigUnread
    /\ useParallel \in BOOLEAN
    /\ batchSize \in 1..MaxBatchSize
    /\ parallelWorkers \in 1..MaxWorkers
    /\ pc = "start"
    /\ themes = <<>>
    /\ res = EmptyResult
    /\ responsesChanged = FALSE
    /\ pending = {}
    /\ ret = Running
    /\ requests = {}
    /\ newResponses = <<>>
    /\ size = 0
    /\ matchRet = NoMatchRet
    /\ result = EmptyMap
    /\ batches = <<>>
    /\ numWorkers = 0
    /\ wpc = <<>>
    /\ batchResults = <<>>
    /\ semaphore = 0
    /\ wg = 0
    /\ errorsChan = <<>>
    /\ sIdx = 0
    /\ allResults = <<>>
    /\ llmCache = EmptyMap
    /\ live = {}
    /\ run = 1
    /\ firstRun = NoFirst
    /\ stateFile = prev

\* The steps of the workflow. AnalyzeResponses is always given a theme list
\* here, so its own identification of themes is no step of the workflow.
NextWorkflow ==
    \/ RunWorkflow
    \/ IdentifyThemesOnly
    \/ MatchResponsesToThemes
    \/ SerialBatch
    \/ SerialReturn
    \/ MatchResponsesToThemesParallel
    \/ \E k \in DOMAIN wpc : Acquire(k)
    \/ \E k \in DOMAIN wpc : CallBatch(k)
    \/ \E k \in DOMAIN wpc : MergeResults(k)
    \/ \E k \in DOMAIN wpc : Release(k)
    \/ WaitAll
    \/ Build
    \/ GenerateThemeSummary
    \/ GenerateGlobalSummary
    \/ SaveState

SpecWorkflow == InitWorkflow /\ [][NextWorkflow]_vars

\* ------------------------------------------------------------------------
\* Client.IdentifyThemes: the responses that go into the prompt
\* ------------------------------------------------------------------------
\* line 375: the most responses a prompt includes
maxResponsesToInclude == 50

\* what a function called on its own leaves alone
NotCall == <<responses, prev, cfgThemes, useParallel, batchSize, parallelWorkers, runVars,
             matchVars, clientVars, llmCache, live, workflowVars, storeVars>>

\* lines 384-386: the loop over i, from index i of rs (counted from 0)
RECURSIVE SampleFrom(_, _, _, _)
SampleFrom(rs, i, step, selectedResponses) ==
    IF i < Len(rs) /\ Len(selectedResponses) < maxResponsesToInclude
    THEN SampleFrom(rs, i + step, step, Append(selectedResponses, rs[i + 1]))
    ELSE selectedResponses

\* lines 375-390: selectedResponses
SelectedResponses(rs) ==
    IF Len(rs) > maxResponsesToInclude
    THEN SampleFrom(rs, 0, Len(rs) \div maxResponsesToInclude, <<>>)
    ELSE rs

\* the responses of an input of n rows, each named by its index
Rows(n) == [k \in 1..n |-> k - 1]

InitSample ==
    /\ fn = "IdentifyThemes"
    /\ args \in {Rows(n) : n \in 0..MaxSampled}
    /\ out = NotReturned
    /\ AnalyzerIdle
    /\ ClientIdle
    /\ CacheIdle
    /\ WorkersIdle

\* the function returned v
ReturnedValue(v) == [returned |-> TRUE, value |-> v]

\* lines 372-390 of IdentifyThemes
SelectResponses ==
    /\ fn = "IdentifyThemes"
    /\ out = NotReturned
    /\ out' = ReturnedValue(SelectedResponses(args))
    /\ UNCHANGED <<fn, args, NotCall>>

NextSample == SelectResponses

SpecSample == InitSample /\ [][NextSample]_vars

\* ------------------------------------------------------------------------
\* Client.parseBatchResults
\* ------------------------------------------------------------------------
\* Strings are sequences of characters.

\* the white space of the texts of the model
WhiteSpace == {" ", "\n"}

\* strings.TrimSpace, left and right part
RECURSIVE TrimLeft(_)
TrimLeft(str) ==
    IF str # <<>> /\ Head(str) \in WhiteSpace THEN TrimLeft(Tail(str)) ELSE str

RECURSIVE TrimRight(_)
TrimRight(str) ==
    IF str # <<>> /\ str[Len(str)] \in WhiteSpace
    THEN TrimRight(SubSeq(str, 1, Len(str) - 1))
    ELSE str

\* mutant: the text is taken as it is
TrimSpaceNone(str) == str

\* strings.TrimSpace
TrimSpace(str) == TrimRight(TrimLeft(str))

\* strings.HasPrefix
HasPrefix(str, prefix) ==
    Len(str) >= Len(prefix) /\ SubSeq(str, 1, Len(prefix)) = prefix

\* strings.Index for a separator of one character, 0 for -1
Index(str, sep) ==
    IF \E i \in 1..Len(str) : str[i] = sep
    THEN CHOOSE i \in 1..Len(str) : str[i] = sep /\ \A j \in 1..(i - 1) : str[j] # sep
    ELSE 0

\* strings.SplitN(str, sep, 2)
SplitN2(str, sep) ==
    LET i == Index(str, sep)
    IN  IF i = 0 THEN <<str>> ELSE <<SubSeq(str, 1, i - 1), SubSeq(str, i + 1, Len(str))>>

\* strings.Split
RECURSIVE Split(_, _)
Split(str, sep) ==
    LET i == Index(str, sep)
    IN  IF i = 0 THEN <<str>>
        ELSE <<SubSeq(str, 1, i - 1)>> \o Split(SubSeq(str, i + 1, Len(str)), sep)

\* strings.ReplaceAll(str, old, "") for one character
RemoveAll(str, old) == SelectSeq(str, LAMBDA c : c # old)

DigitValue ==
    [c \in {"0", "1", "2", "3", "4", "5", "6", "7", "8", "9"} |->
        CASE c = "0" -> 0 [] c = "1" -> 1 [] c = "2" -> 2 [] c = "3" -> 3 [] c = "4" -> 4
          [] c = "5" -> 5 [] c = "6" -> 6 [] c = "7" -> 7 [] c = "8" -> 8 [] c = "9" -> 9]

\* the number of digits str starts with
RECURSIVE LeadingDigits(_)
LeadingDigits(str) ==
    IF str # <<>> /\ Head(str) \in DOMAIN DigitValue THEN 1 + LeadingDigits(Tail(str)) ELSE 0

\* the value of a string of digits
RECURSIVE Decimal(_)
Decimal(str) ==
    IF str = <<>> THEN 0
    ELSE 10 * Decimal(SubSeq(str, 1, Len(str) - 1)) + DigitValue[str[Len(str)]]

\* the verb %d of fmt.Sscanf: leading spaces are skipped, a sign is accepted,
\* the digits that follow are the number and what comes after them is left
\* unread; no digit is an error
ScanInt(str) ==
    LET t      == TrimLeft(str)
        signed == t # <<>> /\ Head(t) \in {"+", "-"}
        u      == IF signed THEN Tail(t) ELSE t
        n      == LeadingDigits(u)
        v      == Decimal(SubSeq(u, 1, n))
    IN  IF n = 0 THEN [err |-> TRUE, num |-> 0]
        ELSE [err |-> FALSE, num |-> IF signed /\ Head(t) = "-" THEN 0 - v ELSE v]

ResponseWord == <<"R", "E", "S", "P", "O", "N", "S", "E">>

\* line 568: the prefix of a result line
ResponsePrefix == ResponseWord \o <<" ">>

\* line 576: fmt.Sscanf(parts[0], "RESPONSE %d", &responseNum)
ScanResponseNum(str) ==
    IF HasPrefix(str, ResponseWord)
    THEN ScanInt(SubSeq(str, Len(ResponseWord) + 1, Len(str)))
    ELSE [err |-> TRUE, num |-> 0]

\* lines 586-590: the numbers of a line that fmt.Sscanf can read
RECURSIVE ScanNums(_)
ScanNums(themeNumStrs) ==
    IF themeNumStrs = <<>> THEN <<>>
    ELSE LET sc == ScanInt(Head(themeNumStrs))
         IN  IF sc.err THEN ScanNums(Tail(themeNumStrs))
             ELSE <<sc.num>> \o ScanNums(Tail(themeNumStrs))

\* lines 565-585: what the loop reads in one line, the response number and
\* the theme numbers; number 0 for a line it passes over
ReadLine(str) ==
    LET line  == TrimSpace(str)
        parts == SplitN2(line, ":")
        rn    == ScanResponseNum(parts[1])
        themeNumsStr == RemoveAll(TrimSpace(parts[2]), " ")
    IN  IF ~HasPrefix(line, ResponsePrefix) \/ Len(parts) # 2 \/ rn.err
        THEN [num |-> 0, nums |-> <<>>]
        ELSE [num |-> rn.num, nums |-> ScanNums(Split(themeNumsStr, ","))]

\* lines 562-565: the lines of the completion, as the loop reads them
ReadLines(completion) ==
    LET ls == Split(completion, "\n")
    IN  [i \in 1..Len(ls) |-> ReadLine(ls[i])]

\* lines a completion can have, each with what it says: the number of the
\* response (0 when it names none) and the theme numbers
WrittenLines ==
    { [text |-> ResponsePrefix \o <<"1", ":", " ", "1", ",", " ", "3">>, num |-> 1, nums |-> <<1, 3>>],
      [text |-> ResponsePrefix \o <<"2", ":", " ", "2">>, num |-> 2, nums |-> <<2>>],
      [text |-> <<" ", " ">> \o ResponsePrefix \o <<"2", ":", "3", " ">>, num |-> 2, nums |-> <<3>>],
      [text |-> ResponsePrefix \o <<"3", ":", " ", "1">>, num |-> 3, nums |-> <<1>>],
      [text |-> ResponsePrefix \o <<"0", ":", " ", "1">>, num |-> 0, nums |-> <<>>],
      [text |-> ResponsePrefix \o <<"1", " ", "2">>, num |-> 0, nums |-> <<>>],
      [text |-> ResponsePrefix \o <<"x", ":", " ", "1">>, num |-> 0, nums |-> <<>>],
      [text |-> <<"R", "e", "s", "p", "o", "n", "s", "e", " ", "1", ":", " ", "1">>, num |-> 0, nums |-> <<>>],
      [text |-> ResponsePrefix \o <<"1", ":", " ", "0", ",", "4", ",", "a", ",", "2">>, num |-> 1, nums |-> <<0, 4, 2>>],
      [text |-> ResponsePrefix \o <<"1", ":">>, num |-> 1, nums |-> <<>>],
      [text |-> <<>>, num |-> 0, nums |-> <<>>] }

\* strings.Join(lines, "\n")
RECURSIVE JoinLines(_)
JoinLines(ls) ==
    IF ls = <<>> THEN <<>>
    ELSE IF Len(ls) = 1 THEN ls[1].text
    ELSE ls[1].text \o <<"\n">> \o JoinLines(Tail(ls))

\* the completions of up to MaxLines lines
WrittenCompletions == UNION {[1..n -> WrittenLines] : n \in 0..MaxLines}

\* the theme list of the call
BatchThemes == <<"T1", "T2", "T3">>

InitParse ==
    /\ fn = "parseBatchResults"
    /\ args \in {[written |-> w, completion |-> JoinLines(w), responseCount |-> n,
                  themes |-> BatchThemes] : w \in WrittenCompletions, n \in 1..MaxBatchSize}
    /\ out = NotReturned
    /\ AnalyzerIdle
    /\ ClientIdle
    /\ CacheIdle
    /\ WorkersIdle

\* line 549: the call of parseBatchResults
ParseBatchResults ==
    /\ fn = "parseBatchResults"
    /\ out = NotReturned
    /\ out' = ReturnedValue(parseBatchResults(ReadLines(args.completion), args.responseCount,
                                                args.themes))
    /\ UNCHANGED <<fn, args, NotCall>>

NextParse == ParseBatchResults

SpecParse == InitParse /\ [][NextParse]_vars

\* ------------------------------------------------------------------------
\* extractSummaryAndIdeas
\* ------------------------------------------------------------------------
\* strings.ReplaceAll
RECURSIVE ReplaceAll(_, _, _)
ReplaceAll(str, old, new) ==
    IF Len(str) < Len(old) \/ str = <<>> THEN str
    ELSE IF HasPrefix(str, old)
         THEN new \o ReplaceAll(SubSeq(str, Len(old) + 1, Len(str)), old, new)
         ELSE <<Head(str)>> \o ReplaceAll(Tail(str), old, new)

\* strings.Index for a separator of any length, 0 for -1
IndexOf(str, sep) ==
    LET at == {i \in 1..Len(str) : HasPrefix(SubSeq(str, i, Len(str)), sep)}
    IN  IF at = {} THEN 0 ELSE CHOOSE i \in at : \A j \in at : i <= j

\* strings.Split for a separator of any length
RECURSIVE SplitOn(_, _)
SplitOn(str, sep) ==
    LET i == IndexOf(str, sep)
    IN  IF i = 0 THEN <<str>>
        ELSE <<SubSeq(str, 1, i - 1)>> \o SplitOn(SubSeq(str, i + Len(sep), Len(str)), sep)

\* strings.TrimPrefix
TrimPrefix(str, prefix) ==
    IF HasPrefix(str, prefix) THEN SubSeq(str, Len(prefix) + 1, Len(str)) ELSE str

SummaryLabel == <<"S", "U", "M", "M", "A", "R", "Y", ":">>
IdeasMarker == <<"U", "N", "I", "Q", "U", "E", " ", "I", "D", "E", "A", "S", ":">>
IdeaPrefix == <<"I", "D", "E", "A", ":", " ">>
BulletPrefix == <<"-", " ">>

\* lines 428-433: the # symbols are removed
CleanUp(response) ==
    LET r1 == ReplaceAll(response, <<"#", " ">> \o SummaryLabel, SummaryLabel)
        r2 == ReplaceAll(r1, <<"#">> \o SummaryLabel, SummaryLabel)
        r3 == ReplaceAll(r2, <<"#", " ">> \o IdeasMarker, IdeasMarker)
        r4 == ReplaceAll(r3, <<"#">> \o IdeasMarker, IdeasMarker)
    IN  ReplaceAll(r4, <<"#">>, <<>>)

\* lines 455-470: the ideas of the lines of the ideas section
RECURSIVE ExtractIdeas(_)
ExtractIdeas(ls) ==
    IF ls = <<>> THEN <<>>
    ELSE LET line == TrimSpace(Head(ls))
             rest == ExtractIdeas(Tail(ls))
         IN  IF HasPrefix(line, IdeaPrefix)
             THEN (IF TrimPrefix(line, IdeaPrefix) # <<>>
                   THEN <<TrimPrefix(line, IdeaPrefix)>> \o rest ELSE rest)
             ELSE IF HasPrefix(line, BulletPrefix)
                  THEN (IF TrimPrefix(line, BulletPrefix) # <<>>
                        THEN <<TrimPrefix(line, BulletPrefix)>> \o rest ELSE rest)
                  ELSE rest

\* lines 424-473
extractSummaryAndIdeas(response) ==
    LET cleaned == CleanUp(response)
        parts   == SplitOn(cleaned, IdeasMarker)
        summary == TrimSpace(parts[1])
    IN  IF Len(parts) < 2
        THEN [summary |-> TrimSpace(cleaned), ideas |-> <<>>]
        ELSE [summary |-> IF HasPrefix(summary, SummaryLabel)
                          THEN TrimSpace(SubSeq(summary, 8 + 1, Len(summary)))
                          ELSE summary,
              ideas   |-> ExtractIdeas(Split(parts[2], "\n"))]

\* how a completion can begin: the text, and the text without header markup
SummaryHeaders ==
    { [text |-> <<>>, plain |-> <<>>, label |-> FALSE],
      [text |-> SummaryLabel \o <<"\n">>, plain |-> SummaryLabel \o <<"\n">>, label |-> TRUE],
      [text |-> <<"#", " ">> \o SummaryLabel \o <<"\n">>, plain |-> SummaryLabel \o <<"\n">>,
       label |-> TRUE],
      [text |-> <<"#">> \o SummaryLabel \o <<" ">>, plain |-> SummaryLabel \o <<" ">>,
       label |-> TRUE] }

\* the summary texts
SummaryBodies ==
    { <<"F", "o", "o", " ", "b", "a", "r", ".">>,
      <<"F", "o", "o", " ", "#", "1", ".">>,
      <<>> }

\* the marker of the ideas section, or none
SummaryMarkers ==
    { [text |-> <<>>, plain |-> <<>>, marker |-> FALSE],
      [text |-> <<"\n", "\n">> \o IdeasMarker, plain |-> <<"\n", "\n">> \o IdeasMarker,
       marker |-> TRUE],
      [text |-> <<"\n", "#", " ">> \o IdeasMarker, plain |-> <<"\n">> \o IdeasMarker,
       marker |-> TRUE] }

\* the lines that can follow, each with the idea it gives
NoIdea == [is |-> FALSE, text |-> <<>>]
IdeaLines ==
    { [text |-> IdeaPrefix \o <<"o", "n", "e">>, idea |-> [is |-> TRUE, text |-> <<"o", "n", "e">>]],
      [text |-> BulletPrefix \o <<"t", "w", "o">>, idea |-> [is |-> TRUE, text |-> <<"t", "w", "o">>]],
      [text |-> <<" ", " ">> \o BulletPrefix \o <<"t", "w", "o", " ">>,
       idea |-> [is |-> TRUE, text |-> <<"t", "w", "o">>]],
      [text |-> <<"I", "D", "E", "A", ":">>, idea |-> NoIdea],
      [text |-> <<"*", " ", "s", "i", "x">>, idea |-> NoIdea],
      [text |-> <<"-", "t", "w", "o">>, idea |-> NoIdea],
      [text |-> <<>>, idea |-> NoIdea] }

\* the lines, each after a line break
RECURSIVE JoinAfterBreaks(_)
JoinAfterBreaks(ls) ==
    IF ls = <<>> THEN <<>> ELSE <<"\n">> \o Head(ls).text \o JoinAfterBreaks(Tail(ls))

\* the completion made of a header, a summary text, a marker and lines
ThemeSummaryResponse(h, b, m, ls) ==
    h.text \o b \o m.text \o JoinAfterBreaks(ls) \o <<"\n">>

InitExtract ==
    /\ fn = "extractSummaryAndIdeas"
    /\ args \in {[header |-> h, body |-> b, marker |-> m, lines |-> ls,
                  response |-> ThemeSummaryResponse(h, b, m, ls)] :
                    h \in SummaryHeaders, b \in SummaryBodies, m \in SummaryMarkers,
                    ls \in UNION {[1..n -> IdeaLines] : n \in 0..MaxIdeaLines}}
    /\ out = NotReturned
    /\ AnalyzerIdle
    /\ ClientIdle
    /\ CacheIdle
    /\ WorkersIdle

\* line 367: the call of extractSummaryAndIdeas
ExtractSummaryAndIdeas ==
    /\ fn = "extractSummaryAndIdeas"
    /\ out = NotReturned
    /\ out' = ReturnedValue(extractSummaryAndIdeas(args.response))
    /\ UNCHANGED <<fn, args, NotCall>>

NextExtract == ExtractSummaryAndIdeas

SpecExtract == InitExtract /\ [][NextExtract]_vars

\* ------------------------------------------------------------------------
\* Properties of the run (specification Spec)
\* ------------------------------------------------------------------------
\* the prior result has an analysis of response r, made of the same content
InPriorWithSameHash(r) ==
    /\ prev.exists
    /\ r.id \in DOMAIN prev.responseAnalyses
    /\ prev.responseAnalyses[r.id].response.hash = r.hash

InputIds == {responses[i].id : i \in DOMAIN responses}

InputOf(id) == responses[CHOOSE i \in DOMAIN responses : responses[i].id = id]

MatchRequests == {q \in requests : q.kind = "match"}

SummaryRequests == {q \in requests : q.kind \in {"theme", "global"}}

\* the ids of the responses whose text some matching request carries
Dispatched == UNION {Range(q.ids) : q \in MatchRequests}

\* C1: in both dispatch modes, a response whose id is in the prior result with
\* an equal content hash is never part of a matching request and, when the
\* matching call returns, has the prior analysis, unmodified (themes and
\* analyzed time), in the returned map and in the result of the run; only
\* responses with a new id or a changed hash are dispatched.
C1_UnchangedCopiedNotDispatched ==
    /\ \A id \in Dispatched : id \in InputIds /\ ~InPriorWithSameHash(InputOf(id))
    /\ \A i \in DOMAIN responses :
          InPriorWithSameHash(responses[i]) =>
             /\ matchRet.status = "ok" =>
                   /\ responses[i].id \in DOMAIN matchRet.analyses
                   /\ matchRet.analyses[responses[i].id] = prev.responseAnalyses[responses[i].id]
             /\ ret.status = "ok" =>
                   /\ responses[i].id \in DOMAIN res.responseAnalyses
                   /\ res.responseAnalyses[responses[i].id] = prev.responseAnalyses[responses[i].id]

\* a parallel run returned with response 1 carried over and response 2 matched
C1_Witness ==
    /\ useParallel
    /\ ret.status = "ok"
    /\ Len(responses) = 2
    /\ InPriorWithSameHash(responses[1])
    /\ ~InPriorWithSameHash(responses[2])
    /\ Dispatched = {2}
    /\ res.responseAnalyses[1].analyzed = 0
    /\ res.responseAnalyses[2].analyzed = 1

\* the id-to-hash mapping of the input equals that of the prior analyses
NothingChanged ==
    /\ prev.exists
    /\ DOMAIN prev.responseAnalyses = InputIds
    /\ \A i \in DOMAIN responses : InPriorWithSameHash(responses[i])

PriorHasThemeSummaries == prev.exists /\ DOMAIN prev.themeSummaries # {}

\* C2: when no response changed relative to the prior result and the prior
\* result has a theme summary, the run issues no theme-summary and no
\* global-summary request, and the result it returns has the prior result's
\* themeSummaries, globalSummary and summary.
C2_SummariesReused ==
    (NothingChanged /\ PriorHasThemeSummaries) =>
        /\ SummaryRequests = {}
        /\ ret.status = "ok" =>
              /\ res.themeSummaries = prev.themeSummaries
              /\ res.globalSummary = prev.globalSummary
              /\ res.summary = prev.summary

C2_Witness ==
    /\ NothingChanged
    /\ PriorHasThemeSummaries
    /\ Len(responses) = 2
    /\ ret.status = "ok"
    /\ res.globalSummary = <<"prior global">>

\* the run is past the change detection of lines 528-537
PastChangeDetection ==
    \/ pc \in {"summaries", "global"}
    \/ pc \in {"done", "exit"} /\ (ret.status = "ok" \/ ret.stage \in {"summaries", "global"})

IdToHash(analyses) == [id \in DOMAIN analyses |-> analyses[id].response.hash]

PriorIds == IF prev.exists THEN DOMAIN prev.responseAnalyses ELSE {}

AddedRemovedOrEdited ==
    \/ \E id \in InputIds : id \notin PriorIds
    \/ \E id \in PriorIds : id \notin InputIds
    \/ \E id \in InputIds \cap PriorIds :
          prev.responseAnalyses[id].response.hash # InputOf(id).hash

\* the summaries of the result are the prior result's
SummariesCopied ==
    /\ PriorHasThemeSummaries
    /\ res.themeSummaries = prev.themeSummaries
    /\ res.globalSummary = prev.globalSummary

\* C3: the run treats the responses as changed exactly when a response was
\* added, removed or has a content hash other than that of the prior analysis
\* of its id, which is exactly when the id-to-hash mapping of the new response
\* analyses differs from that of the prior ones; when they changed the run
\* takes the generation branch and its result does not hold the prior
\* summaries.
C3_ChangeDetection ==
    PastChangeDetection =>
        /\ responsesChanged <=> AddedRemovedOrEdited
        /\ responsesChanged <=>
              (IdToHash(res.responseAnalyses)
                 # IdToHash(IF prev.exists THEN prev.responseAnalyses ELSE EmptyMap))
        /\ responsesChanged => cfg.read /\ ~SummariesCopied

\* an edited response with the count unchanged: summaries are generated anew
C3_Witness ==
    /\ ret.status = "ok"
    /\ responsesChanged
    /\ PriorHasThemeSummaries
    /\ PriorIds = InputIds
    /\ Len(responses) = 2
    /\ "T1" \in DOMAIN res.themeSummaries
    /\ \E q \in requests : q.kind = "theme"

\* the batch size both dispatch modes use for the run
RunBatchSize == batchSize

\* The themes of the p-th dirty response when the dirty list is cut, in input
\* order, into batches of RunBatchSize and each batch is one prompt.
ReferenceThemes(dirty, p) ==
    LET b     == (p - 1) \div RunBatchSize
        first == b * RunBatchSize + 1
        last  == IF first + RunBatchSize - 1 < Len(dirty)
                 THEN first + RunBatchSize - 1 ELSE Len(dirty)
        texts == [j \in 1..(last - first + 1) |-> dirty[first + j - 1].text]
    IN  processBatch(texts, themes)[p - first + 1]

DirtyInput == SelectSeq(responses, LAMBDA r : ~InPriorWithSameHash(r))

\* C4: with a model that gives one answer per prompt, the theme assignment a
\* matching call returns for a dirty response is a function of the dirty list,
\* the theme list and the batch size alone: it is the same in serial and in
\* parallel dispatch, for every worker count and every interleaving.
C4_ModeIndependent ==
    matchRet.status = "ok" =>
        \A p \in DOMAIN DirtyInput :
            /\ DirtyInput[p].id \in DOMAIN matchRet.analyses
            /\ matchRet.analyses[DirtyInput[p].id].themes = ReferenceThemes(DirtyInput, p)

\* a parallel call over two batches with two workers returned
C4_Witness ==
    /\ useParallel
    /\ matchRet.status = "ok"
    /\ Len(batches) = 2
    /\ numWorkers = 2
    /\ matchRet.analyses[2].themes = <<"T2", "T2">>

C4_WitnessSerial ==
    /\ ~useParallel
    /\ matchRet.status = "ok"
    /\ Len(newResponses) = 2
    /\ size = 1
    /\ matchRet.analyses[2].themes = <<"T2", "T2">>

\* C5: when a batch of a parallel matching call failed, the call returns an
\* error and no map: neither the analyses of the batches that succeeded nor
\* the analyses carried over from the prior result.
C5_FailClosed ==
    (useParallel /\ Len(errorsChan) > 0 /\ matchRet.status # "none") =>
        /\ matchRet.status = "error"
        /\ DOMAIN matchRet.analyses = {}
        /\ ret.status = "error"
        /\ ret.stage = "match"

\* one batch failed after the other had written its analyses
C5_Witness ==
    /\ useParallel
    /\ matchRet.status = "error"
    /\ Len(errorsChan) = 1
    /\ Len(batches) = 2
    /\ DOMAIN result # {}

\* the goroutines that are between their acquire and their release
Holders == {k \in DOMAIN wpc : wpc[k] \in {"holding", "merge", "exit"}}

\* C6: during parallel matching there is one goroutine per batch (not per
\* response), and the goroutines that hold a semaphore slot are never more
\* than the worker count.
C6_SemaphoreCap ==
    (useParallel /\ pc = "wait") =>
        /\ Cardinality(Holders) <= parallelWorkers
        /\ semaphore = Cardinality(Holders)
        /\ Len(wpc) = Len(batches)
        /\ Len(batches) = (Len(newResponses) + batchSize - 1) \div batchSize

\* more batches than workers: one holds the slot, the other waits for it
C6_Witness ==
    /\ pc = "wait"
    /\ parallelWorkers = 1
    /\ Len(batches) = 2
    /\ Cardinality(Holders) = 1
    /\ \E k \in DOMAIN wpc : wpc[k] = "spawned"

\* ------------------------------------------------------------------------
\* Properties of GetCompletion (specification SpecClient)
\* ------------------------------------------------------------------------
Backoffs == SelectSeq(sleeps, LAMBDA w : w.kind = "backoff")

RECURSIVE TotalWait(_)
TotalWait(ws) == IF ws = <<>> THEN 0 ELSE Head(ws).d + TotalWait(Tail(ws))

\* the call has returned after at least one HTTP attempt
ReturnedLive == cpc = "idle" /\ statuses # <<>>

\* C7: a call that misses the cache makes at most 4 HTTP attempts, every
\* attempt after the first follows a 429 response, and the wait before the
\* k-th retry (k = 1, 2, 3) is base * 2^(k-1), base being the rate-limit delay.
C7_RetryBackoff ==
    /\ Len(statuses) <= 4
    /\ \A j \in 2..Len(statuses) : statuses[j - 1] = 429
    /\ Len(Backoffs) <= 3
    /\ \A k \in DOMAIN Backoffs : Backoffs[k].d = rateLimitDelay * (2 ^ (k - 1))
    /\ cpc = "send" => Len(Backoffs) = Len(statuses)
    /\ ReturnedLive => Len(Backoffs) = Len(statuses) - 1

\* the fourth attempt was made, after waits of 2, 4 and 8
C7_Witness ==
    /\ ReturnedLive
    /\ Len(statuses) = 4
    /\ rateLimitDelay = 2
    /\ Backoffs = <<[kind |-> "backoff", d |-> 2], [kind |-> "backoff", d |-> 4],
                    [kind |-> "backoff", d |-> 8]>>

AllThrottled == Len(statuses) = 4 /\ \A j \in DOMAIN statuses : statuses[j] = 429

\* C8: when every attempt of a request is throttled, GetCompletion fails with
\* the rate-limit-exhausted error ("failed after 3 retries: rate limit
\* exceeded"), not with the upstream-request error of other statuses.
C8_RateLimitExhausted ==
    (ReturnedLive /\ AllThrottled) => cret.kind = "exhausted"

ThrottledThreeTimesThenOK == statuses = <<429, 429, 429, 200>>

\* C9 as claimed: throttled three times and then answered, the call succeeds
\* and the total time it waited is base + 2*base + 4*base.
C9_TotalWaitIsSevenBase ==
    (ReturnedLive /\ ThrottledThreeTimesThenOK) =>
        /\ cret.kind = "ok"
        /\ TotalWait(sleeps) = 7 * rateLimitDelay

\* C9 as amended: throttled three times and then answered, the call succeeds,
\* its backoff waits add up to base + 2*base + 4*base, and with the rate-limit
\* delay slept once before the first attempt the total time it waited is
\* 8*base.
C9_BackoffSevenTotalEightBase ==
    (ReturnedLive /\ ThrottledThreeTimesThenOK) =>
        /\ cret.kind = "ok"
        /\ TotalWait(Backoffs) = 7 * rateLimitDelay
        /\ TotalWait(sleeps) = 8 * rateLimitDelay

C9_Witness ==
    /\ ReturnedLive
    /\ ThrottledThreeTimesThenOK
    /\ rateLimitDelay = 1
    /\ cret.kind = "ok"
    /\ TotalWait(sleeps) = 8

\* C10: a response that is neither a success nor a 429 ends the call at once
\* with the upstream error and its message: no retry, no backoff wait, and
\* the cache and the running totals are as they were when the call was made.
C10_UpstreamFailsAtOnce ==
    /\ [][(cpc = "send" /\ statuses' # statuses
              /\ statuses'[Len(statuses')] \notin {200, 429, TransportError})
            => /\ cpc' = "idle"
               /\ cret'.kind = "upstream"
               /\ cret'.status = statuses'[Len(statuses')]
               /\ cret'.text \in ErrorMessages
               /\ sleeps' = sleeps
               /\ retry' = retry
               /\ cache' = cache
               /\ totalTokens' = totalTokens
               /\ totalCost' = totalCost]_vars
    /\ []((cpc = "idle" /\ cret.kind = "upstream") => ClientCounters = atEntry)

\* a 500 after one throttled attempt, on a client that already holds a
\* cached completion and running totals
C10_Witness ==
    /\ cpc = "idle"
    /\ cret.kind = "upstream"
    /\ statuses = <<429, 500>>
    /\ Len(sleeps) = 2
    /\ totalTokens > 0
    /\ DOMAIN cache # {}

\* ------------------------------------------------------------------------
\* Claims about the result of AnalyzeResponses (Spec)
\* ------------------------------------------------------------------------
\* AnalyzeResponses returned a result
ReturnedResult == pc \in {"done", "exit"} /\ ret.status = "ok"

\* the theme names of the response analyses of the result
AssignedThemes == UNION {Range(res.responseAnalyses[id].themes) : id \in DOMAIN res.responseAnalyses}

\* C12: in every returned result every theme name of every response analysis
\* is in the result's theme list and is a key of themeAnalyses.
C12_AssignedThemesAreListed ==
    ReturnedResult =>
        \A t \in AssignedThemes : t \in Range(themes) /\ t \in DOMAIN res.themeAnalyses

\* the ids of the response analyses whose themes contain t
IdsWithTheme(t) == {id \in DOMAIN res.responseAnalyses : t \in Range(res.responseAnalyses[id].themes)}

\* C13: in every returned result themeAnalyses has exactly the themes of the
\* theme list as keys, and the response ids of a theme are exactly the ids of
\* the response analyses whose themes contain it.
C13_Aggregation ==
    ReturnedResult =>
        /\ DOMAIN res.themeAnalyses = Range(themes)
        /\ \A t \in DOMAIN res.themeAnalyses :
              /\ res.themeAnalyses[t].theme = t
              /\ Range(res.themeAnalyses[t].responses) = IdsWithTheme(t)

\* a result in which a carried-over analysis has a name that is not in the
\* theme list: the name has no key, the response is listed under its other theme
C13_Witness ==
    /\ ReturnedResult
    /\ themes = <<"T1", "T2">>
    /\ "T9" \in AssignedThemes
    /\ "T9" \notin DOMAIN res.themeAnalyses
    /\ res.themeAnalyses["T1"].responses = <<1>>
    /\ res.themeAnalyses["T2"].responses = <<2>>

\* the themes with at least one matched response in the result
MatchedThemes == {t \in DOMAIN res.themeAnalyses : res.themeAnalyses[t].responses # <<>>}

\* the run generated its theme summaries
GeneratedThemeSummaries == cfg.read /\ Len(themes) > 0 /\ cfg.themeSummaryPrompt # ""

\* C14: in every returned result, reused summaries included, themeSummaries
\* has entries only for themes with a matched response; when the run
\* generated them it has exactly those, and no summary request was made for a
\* theme without a match.
C14_SummariesOnlyForMatchedThemes ==
    ReturnedResult =>
        /\ DOMAIN res.themeSummaries \subseteq MatchedThemes
        /\ GeneratedThemeSummaries => DOMAIN res.themeSummaries = MatchedThemes
        /\ \A q \in requests : q.kind = "theme" => q.theme \in MatchedThemes

\* the stage a request belongs to
StageOf(kind) == IF kind = "identify" THEN 1 ELSE IF kind = "match" THEN 2
                 ELSE IF kind = "theme" THEN 3 ELSE 4

\* the stage an error return names
FailedStage == IF ret.stage = "identify" THEN 1 ELSE IF ret.stage = "match" THEN 2
               ELSE IF ret.stage = "summaries" THEN 3 ELSE 4

\* C15: when the client fails in a stage, AnalyzeResponses returns the error
\* of that stage, no request of a later stage was issued, and the workflow
\* ends without writing the state file.
C15_FailureAborts ==
    ret.status = "error" =>
        /\ pc \in {"done", "exit"}
        /\ ret.stage \in {"identify", "match", "summaries", "global"}
        /\ \A q \in requests : StageOf(q.kind) <= FailedStage
        /\ \E q \in requests : StageOf(q.kind) = FailedStage
        /\ stateFile = prev

\* the workflow ended after a theme summary failed, with a state file from an
\* earlier run
C15_Witness ==
    /\ pc = "exit"
    /\ ret.status = "error"
    /\ ret.stage = "summaries"
    /\ prev.exists
    /\ stateFile.responseAnalyses # EmptyMap
    /\ \E q \in requests : q.kind = "match"

\* ------------------------------------------------------------------------
\* Claims about two runs on one cache (SpecTwice)
\* ------------------------------------------------------------------------
\* the themes assigned to each response id
Assignments(r) == [id \in DOMAIN r.responseAnalyses |-> r.responseAnalyses[id].themes]

\* C11: the second of two runs on the same responses, without prior state and
\* on the cache of the first, returns the themes, assignments and summaries
\* of the first and issues no live request.
C11_SecondRunFromCache ==
    (run = 2 /\ ReturnedResult) =>
        /\ live = {}
        /\ themes = firstRun.themes
        /\ Assignments(res) = Assignments(firstRun.res)
        /\ res.themeSummaries = firstRun.res.themeSummaries
        /\ res.globalSummary = firstRun.res.globalSummary
        /\ res.summary = firstRun.res.summary

\* ------------------------------------------------------------------------
\* Claims about concurrent calls of GetCompletion (SpecWorkers)
\* ------------------------------------------------------------------------
RECURSIVE SumTokens(_)
SumTokens(cs) == IF cs = <<>> THEN 0 ELSE Head(cs).totalTokens + SumTokens(Tail(cs))

RECURSIVE SumCost(_)
SumCost(cs) == IF cs = <<>> THEN 0 ELSE Head(cs).cost + SumCost(Tail(cs))

AllReturned == \A k \in DOMAIN gpc : gpc[k] = "returned"

\* C16: when the concurrent calls have returned, the running token total is
\* the sum of the tokens of the live completions and the running cost is the
\* sum of their costs.
C16_TotalsAreSums ==
    AllReturned =>
        /\ totalTokens = SumTokens(completed)
        /\ totalCost = SumCost(completed)

\* a step by which a Get of thread t returns
GetReturns(t) == tpc[t] \in {"get_lookup", "get_check", "get_delete"} /\ tpc'[t] = "idle"

\* C17: A Get that finds an entry older than the time-to-live goes on to
\* delete it, returns not-found and leaves the key out of the index; a Set
\* stores its value in the index with an expiry of the write time plus the
\* time-to-live, whatever the index held for the key; and a Get that returns
\* no later than the time-to-live after the last Set of its key returns the
\* value of that Set.
C17_ExpiryAndOverwrite ==
    [][\A t \in DOMAIN tpc :
        LET k == tloc[t].key
            h == hashKey(tloc[t].key)
        IN  /\ (tpc[t] = "get_check" /\ tpc'[t] # "get_check"
                    /\ now > tloc[t].entry.createdAt + ttl)
                  => tpc'[t] = "get_delete"
            /\ (tpc[t] = "get_delete" /\ tpc'[t] = "idle")
                  => (~tloc'[t].found /\ h \notin DOMAIN entries')
            /\ (tpc[t] = "set_store" /\ tpc'[t] # "set_store")
                  => /\ h \in DOMAIN entries'
                     /\ entries'[h].value = tloc[t].value
                     /\ entries'[h].expiresAt = now + ttl
            /\ (GetReturns(t) /\ k \in DOMAIN written /\ now <= written[k].at + ttl)
                  => (tloc'[t].found /\ tloc'[t].result = written[k].value)]_vars

\* one thread's Get of "k1" found the entry of the earlier process expired and
\* returned not-found, and after a Set of "k1" another thread's Get returned
\* the value set
C17_Witness ==
    \E t, u \in DOMAIN tpc :
        /\ t # u
        /\ tpc[t] = "idle" /\ tloc[t].op = "get" /\ tloc[t].key = "k1"
        /\ tloc[t].entry.value = "v0" /\ ~tloc[t].found
        /\ tpc[u] = "idle" /\ tloc[u].op = "get" /\ tloc[u].key = "k1"
        /\ tloc[u].found /\ tloc[u].result \in Values
        /\ "k1" \in DOMAIN written /\ written["k1"].at = now

\* C18: No thread writes the index of the Cache while another thread reads or
\* writes it, and the process never stops on a concurrent map access.
C18_IndexMutationIsExclusive == ~Racing /\ ~fatal

\* C19: A Set whose persistEntry fails returns the error and leaves its value
\* in the index; a Get of that key that returns before the entry expires, with
\* no later Set of the key and no Clear, returns the value.
C19_FailedPersistStillCached ==
    [][\A t \in DOMAIN tpc :
        LET k == tloc[t].key
            h == hashKey(tloc[t].key)
        IN  /\ (tpc[t] = "set_persist" /\ tpc'[t] = "idle" /\ written'[k].err)
                  => /\ tloc'[t].err
                     /\ h \in DOMAIN entries'
                     /\ entries'[h].value = tloc[t].value
            /\ (GetReturns(t) /\ k \in DOMAIN written /\ written[k].err
                    /\ now <= written[k].at + ttl)
                  => (tloc'[t].found /\ tloc'[t].result = written[k].value)]_vars

\* a Get has returned the value of a Set whose file was never written
C19_Witness ==
    \E t \in DOMAIN tpc :
        /\ tpc[t] = "idle" /\ tloc[t].op = "get" /\ tloc[t].found
        /\ persisted
        /\ tloc[t].key \in DOMAIN written
        /\ written[tloc[t].key].err
        /\ tloc[t].result = written[tloc[t].key].value
        /\ hashKey(tloc[t].key) \notin DOMAIN files

\* C20: No failure of the storage of the cache makes the workflow return an
\* error.
C20_NoCacheFailureAborts == cstatus # "error" /\ workflowErr = ""

\* the step in which the later process loads the cache directory
LaterLoad == proc = 2 /\ cstatus = "none" /\ cstatus' = "ok" /\ persisted' /\ startup'.listed

\* C21: An entry that a Set of the earlier process wrote to its file is in the
\* index of a later process that opens the directory with persistence on,
\* unless it has expired or its file could not be read, and a Get of its key
\* returns its value until it expires or is set or cleared again; no entry
\* that has expired at startup is loaded.
C21_EntriesSurviveRestart ==
    [][/\ LaterLoad =>
            \A k \in DOMAIN saved :
                (now <= saved[k].at + ttl /\ hashKey(k) \notin startup'.skipped)
                    => /\ hashKey(k) \in DOMAIN entries'
                       /\ entries'[hashKey(k)].value = saved[k].value
       /\ (cstatus = "none" /\ cstatus' = "ok") =>
            \A h \in DOMAIN entries' : now <= entries'[h].createdAt + ttl
       /\ \A t \in DOMAIN tpc :
            (/\ proc = 2
             /\ GetReturns(t)
             /\ tloc[t].key \in DOMAIN saved
             /\ tloc[t].key \in DOMAIN written
             /\ written[tloc[t].key] = saved[tloc[t].key]
             /\ now <= saved[tloc[t].key].at + ttl)
                => (tloc'[t].found /\ tloc'[t].result = saved[tloc[t].key].value)]_vars

GlobalRequests == {q \in requests : q.kind = "global"}
ThemeRequests == {q \in requests : q.kind = "theme"}

\* the themes of a list that are in S, in the order of the list
InListOrder(ths, S) == SelectSeq(ths, LAMBDA t : t \in S)

\* C22: Every global-summary request lists the theme summaries in the order
\* of the theme list of the run.
C22_GlobalPromptInThemeOrder ==
    \A q \in GlobalRequests : q.order = InListOrder(themes, Range(q.order))

\* the texts a theme-summary prompt lists when BuildThemeAnalyses visits the
\* analyses in `order`
TextsInOrder(t, order) ==
    LET ids == ThemeResponses(t, order, res.responseAnalyses)
    IN  [j \in 1..Len(ids) |-> res.responseAnalyses[ids[j]].response.text]

\* C23: The responses a theme-summary request lists are the same for every
\* order in which the response analyses of the run can be visited.
C23_ThemePromptReproducible ==
    \A q \in ThemeRequests :
        \A order \in Perms(DOMAIN res.responseAnalyses) :
            q.texts = TextsInOrder(q.theme, order)

IdentifyRequests == {q \in requests : q.kind = "identify"}
AnalysisRequests == {q \in requests : q.kind \in {"match", "theme", "global"}}

\* the configuration or the previous state supplies a theme list
ConfigSupplies == Len(cfgThemes) > 0
PriorSupplies == prev.exists /\ Len(prevThemes) > 0

\* the positions of a run of AnalyzeResponses and of what follows it
InAnalysis == pc \in {"identify", "match", "serial", "wait", "build", "summaries", "global", "done"}

C26_SummaryEqualsGlobalSummary ==
    (prev.exists => prev.summary = prev.globalSummary) =>
        /\ res.summary = res.globalSummary
        /\ stateFile.exists => stateFile.summary = stateFile.globalSummary

\* a run with a prior global summary generated a new one, returned it in
\* both fields and saved it
C26_Witness ==
    /\ pc = "exit"
    /\ ret.status = "ok"
    /\ prev.exists
    /\ prev.globalSummary = <<"prior global">>
    /\ \E q \in requests : q.kind = "global"
    /\ res.globalSummary \notin {<<>>, prev.globalSummary}
    /\ res.summary = res.globalSummary
    /\ stateFile = StateOf(res)

\* ------------------------------------------------------------------------
\* Claims about the text functions of the client and the analyzer
\* ------------------------------------------------------------------------
Sampled == fn = "IdentifyThemes" /\ out.returned

\* C27: With more responses than the cap, the prompt of IdentifyThemes has
\* exactly cap responses, those at indices 0, s, 2s, ... with s the whole
\* part of N / cap, and they are not the first cap responses; with at most
\* cap responses it has all of them in order.
C27_EvenlyStridedSample ==
    Sampled =>
        IF Len(args) > maxResponsesToInclude
        THEN LET s == Len(args) \div maxResponsesToInclude
             IN  /\ Len(out.value) = maxResponsesToInclude
                 /\ \A k \in 1..Len(out.value) : out.value[k] = (k - 1) * s
                 /\ out.value # SubSeq(args, 1, maxResponsesToInclude)
        ELSE out.value = args

Parsed == fn = "parseBatchResults" /\ out.returned

\* the lines of the completion that are for response r
LinesFor(r) == {k \in DOMAIN args.written : args.written[k].num = r}

\* the themes a line names: those of its numbers that number a theme
RECURSIVE NamedThemes(_, _)
NamedThemes(nums, ths) ==
    IF nums = <<>> THEN <<>>
    ELSE IF Head(nums) \in 1..Len(ths)
         THEN <<ths[Head(nums)]>> \o NamedThemes(Tail(nums), ths)
         ELSE NamedThemes(Tail(nums), ths)

\* C28: parseBatchResults returns one theme list per response of the batch,
\* in batch order: a response for which the completion has no well-formed
\* line with its number gets the empty list, a response with such a line
\* gets the themes the numbers of its (last) line name, numbers that number
\* no theme left out, and every name returned is in the theme list.
C28_OneThemeSetPerResponse ==
    Parsed =>
        /\ DOMAIN out.value = 1..args.responseCount
        /\ \A r \in 1..args.responseCount :
            /\ LinesFor(r) = {} => out.value[r] = <<>>
            /\ LinesFor(r) # {} =>
                 LET k == CHOOSE x \in LinesFor(r) : \A y \in LinesFor(r) : y <= x
                 IN  out.value[r] = NamedThemes(args.written[k].nums, args.themes)
            /\ \A i \in DOMAIN out.value[r] : out.value[r][i] \in Range(args.themes)

\* a batch of two: the line of response 2 is malformed and that of response
\* 1 has numbers that number no theme
C28_Witness ==
    /\ Parsed
    /\ args.responseCount = 2
    /\ Len(args.written) = 2
    /\ args.written[1].nums = <<0, 4, 2>>
    /\ args.written[2].text = ResponsePrefix \o <<"x", ":", " ", "1">>
    /\ out.value = <<<<"T2">>, <<>>>>

Extracted == fn = "extractSummaryAndIdeas" /\ out.returned

\* the ideas the lines after the marker give, in order
RECURSIVE WrittenIdeas(_)
WrittenIdeas(ls) ==
    IF ls = <<>> THEN <<>>
    ELSE IF Head(ls).idea.is THEN <<Head(ls).idea.text>> \o WrittenIdeas(Tail(ls))
    ELSE WrittenIdeas(Tail(ls))

\* C29: extractSummaryAndIdeas, header markup aside: without the marker the
\* summary is the whole trimmed text and there are no ideas; with the marker
\* the summary is the text before it without the "SUMMARY:" label, and the
\* ideas are the lines after it that start with "IDEA: " or "- ", in order
\* and without the prefix.
C29_SummaryAndIdeasExtracted ==
    Extracted =>
        IF ~args.marker.marker
        THEN /\ out.value.summary =
                    TrimSpace(args.header.plain \o args.body \o JoinAfterBreaks(args.lines))
             /\ out.value.ideas = <<>>
        ELSE /\ out.value.summary = TrimSpace(args.body)
             /\ out.value.ideas = WrittenIdeas(args.lines)

\* the batches of a parallel call whose responses did not reach the result
FailedBatches ==
    {k \in DOMAIN batches : \E i \in DOMAIN batches[k] : batches[k][i].id \notin DOMAIN result}

\* C30: When a parallel matching call over batches has returned, every
\* goroutine has finished and every batch has made its request, whether or
\* not another batch failed; the errors of the call have exactly one entry
\* for each batch that failed and none for the others, and the error the
\* call and the run return carries all of them.
C30_EveryBatchRunsEveryErrorReported ==
    (useParallel /\ matchRet.status # "none" /\ Len(batches) > 0) =>
        /\ \A k \in DOMAIN wpc : wpc[k] = "done"
        /\ wg = 0
        /\ semaphore = 0
        /\ \A k \in DOMAIN batches : MatchRequest(k - 1, batches[k]) \in requests
        /\ \A k \in DOMAIN batches :
              Cardinality({j \in DOMAIN matchRet.errs : matchRet.errs[j] = k - 1})
                  = IF k \in FailedBatches THEN 1 ELSE 0
        /\ Len(matchRet.errs) = Cardinality(FailedBatches)
        /\ FailedBatches # {} =>
              /\ matchRet.status = "error"
              /\ ret.status = "error"
              /\ ret.errs = matchRet.errs

\* both batches of a call failed, the second before the first, and the call
\* returned the two errors
C30_Witness ==
    /\ useParallel
    /\ Len(batches) = 2
    /\ matchRet.status = "error"
    /\ matchRet.errs = <<1, 0>>
    /\ ret.errs = <<1, 0>>
    /\ \A k \in DOMAIN wpc : wpc[k] = "done"

\* ------------------------------------------------------------------------
\* Claims about batching, ordering and the result of a run
\* ------------------------------------------------------------------------
\* the number of batches of the dirty list
NumBatches == (Len(newResponses) + size - 1) \div size

\* the j-th stretch of `size` dirty responses, j counted from 0
Stretch(j) ==
    SubSeq(newResponses, j * size + 1, Min((j + 1) * size, Len(newResponses)))

\* C31: When a matching call over N > 0 dirty responses with batch size B
\* has returned a map, its matching requests are one per stretch of B
\* consecutive dirty responses, ceil(N/B) in all and the last one possibly
\* shorter; every dirty response is in exactly one of them; no request is
\* ever made for anything else; and the analysis of the i-th response of a
\* batch has the i-th theme list of the completion of that batch.
C31_ContiguousBatches ==
    [](
        /\ (pc \notin {"identify", "match"} /\ Len(newResponses) > 0) =>
                MatchRequests \subseteq {MatchRequest(j, Stretch(j)) : j \in 0..(NumBatches - 1)}
        /\ (pc = "build" /\ matchRet.status = "ok" /\ Len(newResponses) > 0) =>
            /\ size >= 1
            /\ MatchRequests = {MatchRequest(j, Stretch(j)) : j \in 0..(NumBatches - 1)}
            /\ Cardinality(MatchRequests) = NumBatches
            /\ useParallel => batches = [k \in 1..NumBatches |-> Stretch(k - 1)]
            /\ \A q \in MatchRequests :
                  Len(q.ids) = size \/ (q.idx = NumBatches - 1 /\ Len(q.ids) \in 1..size)
            /\ \A p \in DOMAIN newResponses :
                  /\ Cardinality({q \in MatchRequests : newResponses[p].id \in Range(q.ids)}) = 1
                  /\ LET j == (p - 1) \div size
                         i == ((p - 1) % size) + 1
                         a == matchRet.analyses[newResponses[p].id]
                     IN  /\ a.response = newResponses[p]
                         /\ a.themes = processBatch(TextsOf(Stretch(j)), themes)[i]
    )

\* a serial call cut two dirty responses into two batches of one and
\* returned their analyses
C31_Witness ==
    /\ ~useParallel
    /\ matchRet.status = "ok"
    /\ Len(newResponses) = 2
    /\ size = 1
    /\ Cardinality(MatchRequests) = 2
    /\ DOMAIN matchRet.analyses = {1, 2}

\* the requests a step issues
Issued == requests' \ requests

\* the themes that have responses in the theme analyses of the run
ThemesWithResponses ==
    {t \in DOMAIN res.themeAnalyses : Len(res.themeAnalyses[t].responses) > 0}

\* C32: The identification request of a run is its first request; a matching
\* request is issued only with the theme list settled and before any
\* summary request; a theme-summary request is issued only after the
\* matching call has returned its map, every goroutine done and every batch
\* requested, and before the global-summary request; the global-summary
\* request is issued only when every theme summary of the run is there.
C32_StagesInOrder ==
    [][\A q \in Issued :
        /\ q.kind = "identify" => requests = {}
        /\ q.kind = "match" =>
              /\ pc \in {"serial", "wait"}
              /\ themes' = themes
              /\ SummaryRequests = {}
        /\ q.kind = "theme" =>
              /\ matchRet.status = "ok"
              /\ \A k \in DOMAIN wpc : wpc[k] = "done"
              /\ Len(newResponses) > 0 => Cardinality(MatchRequests) = NumBatches
              /\ DOMAIN res.responseAnalyses = InputIds
              /\ \A r \in requests : r.kind # "global"
        /\ q.kind = "global" =>
              /\ pending = {}
              /\ \A r \in requests : r.kind = "theme" => r.theme \in DOMAIN res.themeSummaries
              /\ cfg.themeSummaryPrompt # "" => DOMAIN res.themeSummaries = ThemesWithResponses
    ]_vars

\* a run identified its themes, matched two batches in parallel, generated
\* two theme summaries and then the global summary
C32_Witness ==
    /\ ReturnedResult
    /\ useParallel
    /\ IdentifyRequest \in requests
    /\ Cardinality(MatchRequests) = 2
    /\ Cardinality({q \in requests : q.kind = "theme"}) = 2
    /\ \E q \in requests : q.kind = "global"

\* ------------------------------------------------------------------------
\* The batch size and the worker count of a run, from the configuration
\* ------------------------------------------------------------------------
\* part_001 55: the batch size of a new Analyzer
DefaultBatchSize == 10

\* part_001 56: the number of workers of a new Analyzer
DefaultWorkers == 4

\* part_001 53-57: NewAnalyzer
NewAnalyzerFields ==
    [batchSize |-> DefaultBatchSize, parallelWorkers |-> DefaultWorkers, useParallel |-> TRUE]

\* part_001 62-66: SetBatchSize
WithBatchSize(a, n) == IF n > 0 THEN [a EXCEPT !.batchSize = n] ELSE a

\* part_001 69-73: SetParallelWorkers
WithParallelWorkers(a, workers) == IF workers > 0 THEN [a EXCEPT !.parallelWorkers = workers] ELSE a

\* part_001 76-78: SetUseParallel
WithUseParallel(a, b) == [a EXCEPT !.useParallel = b]

\* the lengths of the batches n responses are cut into, in order
BatchLengths(n, bsize) ==
    [k \in 1..((n + bsize - 1) \div bsize) |-> Min(bsize, n - (k - 1) * bsize)]

\* part_001 509-525 with 133-145 and 202-228: the sizes the matching call of
\* an Analyzer with fields a works with for n dirty responses
MatchSizes(a, n) ==
    LET bsize == EffectiveBatchSize(a.batchSize, n)
    IN  IF n = 0
        THEN [batchSize |-> a.batchSize, numWorkers |-> 0, lengths |-> <<>>]
        ELSE [batchSize  |-> bsize,
              numWorkers |-> IF a.useParallel
                             THEN EffectiveWorkers(a.parallelWorkers, n, bsize)
                             ELSE 1,
              lengths    |-> BatchLengths(n, bsize)]

\* the values the configuration may hold: unset (0), negative, and set
ConfiguredSizes == {-1, 0} \cup {3 * k : k \in 1..MaxBatchSize}
ConfiguredWorkers == {-1, 0} \cup (1..MaxWorkers)

\* an Analyzer under construction
Constructing(a) == [returned |-> FALSE, analyzer |-> a]

InitSizing ==
    /\ fn = "NewAnalyzer"
    /\ args \in [batchSize : ConfiguredSizes, parallelWorkers : ConfiguredWorkers,
                 useParallel : BOOLEAN, dirty : 0..MaxDirty]
    /\ out = NotReturned
    /\ AnalyzerIdle
    /\ ClientIdle
    /\ CacheIdle
    /\ WorkersIdle

\* part_003 66 (analysis.NewAnalyzer)
NewAnalyzer ==
    /\ fn = "NewAnalyzer"
    /\ out' = Constructing(NewAnalyzerFields)
    /\ fn' = "SetBatchSize"
    /\ UNCHANGED <<args, NotCall>>

\* part_003 185
SetBatchSize ==
    /\ fn = "SetBatchSize"
    /\ out' = Constructing(WithBatchSize(out.analyzer, args.batchSize))
    /\ fn' = "SetParallelWorkers"
    /\ UNCHANGED <<args, NotCall>>

\* part_003 186
SetParallelWorkers ==
    /\ fn = "SetParallelWorkers"
    /\ out' = Constructing(WithParallelWorkers(out.analyzer, args.parallelWorkers))
    /\ fn' = "SetUseParallel"
    /\ UNCHANGED <<args, NotCall>>

\* part_003 187
SetUseParallel ==
    /\ fn = "SetUseParallel"
    /\ out' = Constructing(WithUseParallel(out.analyzer, args.useParallel))
    /\ fn' = "AnalyzeResponses"
    /\ UNCHANGED <<args, NotCall>>

\* part_001 509-525: the matching call of the run
MatchDirty ==
    /\ fn = "AnalyzeResponses"
    /\ ~out.returned
    /\ out' = ReturnedValue(MatchSizes(out.analyzer, args.dirty))
    /\ UNCHANGED <<fn, args, NotCall>>

NextSizing ==
    \/ NewAnalyzer
    \/ SetBatchSize
    \/ SetParallelWorkers
    \/ SetUseParallel
    \/ MatchDirty

SpecSizing == InitSizing /\ [][NextSizing]_vars

\* the batch size the volume of n dirty responses asks for
AutoBatchSize(n) == IF n < 10 THEN n ELSE IF n > 100 THEN 20 ELSE 10

\* the most batches in flight at once
InFlight(workers, lengths) == Min(workers, Len(lengths))

\* C33: With no batch size configured (a value <= 0) the dirty responses of a
\* run are matched in batches of the automatic size: all of them in one
\* batch when they are fewer than 10, batches of 20 when they are more than
\* 100, batches of 10 otherwise; with no worker count configured a parallel
\* run has at most 4 batches in flight, and fewer when it has fewer batches.
C33_AutoSizedBatches ==
    (fn = "AnalyzeResponses" /\ out.returned /\ args.dirty > 0) =>
        /\ args.batchSize <= 0 =>
              out.value.lengths = BatchLengths(args.dirty, AutoBatchSize(args.dirty))
        /\ (args.parallelWorkers <= 0 /\ args.useParallel) =>
              InFlight(out.value.numWorkers, out.value.lengths)
                  = InFlight(4, out.value.lengths)

\* C34: After a successful matching call, serial or parallel, the returned
\* map has exactly the ids of the input as its keys; the analysis under an
\* id holds the record of the current input with its current hash; no
\* analysis of a prior response that left the input is carried over.
C34_AnalysesCoverInput ==
    [](
        matchRet.status = "ok" =>
            /\ DOMAIN matchRet.analyses = InputIds
            /\ \A id \in InputIds :
                  /\ matchRet.analyses[id].response = InputOf(id)
                  /\ matchRet.analyses[id].response.id = id
                  /\ matchRet.analyses[id].response.hash = Hash(InputOf(id).text)
            /\ \A id \in DOMAIN prev.responseAnalyses :
                  id \notin InputIds => id \notin DOMAIN matchRet.analyses
            /\ res.responseAnalyses = matchRet.analyses
    )

\* a successful call over an input of one row, changed since the prior run,
\* whose prior result also has an analysis of a row that left the input
C34_Witness ==
    /\ matchRet.status = "ok"
    /\ InputIds = {1}
    /\ DOMAIN prev.responseAnalyses = {1, 2}
    /\ prev.responseAnalyses[1].response.hash # responses[1].hash
    /\ DOMAIN matchRet.analyses = {1}

\* ------------------------------------------------------------------------
\* Client.GetCompletion: the cache key of two requests
\* ------------------------------------------------------------------------
\* the characters of the prompts: the separator of the key, a digit, a letter
KeyChars == {":", "7"}

\* the prompts and system prompts: the texts of at most MaxText characters
KeyTexts == UNION {[1..n -> KeyChars] : n \in 0..MaxText}

\* the requests: c.model, systemPrompt, maxTokens, prompt
FirstRequests ==
    [model : {<<"m">>}, systemPrompt : KeyTexts, maxTokens : {7}, prompt : KeyTexts]
SecondRequests ==
    [model : {<<"m">>, <<"m", ":">>}, systemPrompt : KeyTexts, maxTokens : {7, 77},
     prompt : KeyTexts]

\* client.go 176 and part_002 98, 128: the name the cache keeps a request under
Fingerprint(q) == hashKey(CacheKey(q.model, q.systemPrompt, q.maxTokens, q.prompt))

\* the completion the API returns for a request
AnswerTo(q) == <<"completion for", q>>

InitKey ==
    /\ fn = "GetCompletion"
    /\ args \in [first : FirstRequests, second : SecondRequests]
    /\ out = NotReturned
    /\ AnalyzerIdle
    /\ ClientIdle
    /\ CacheIdle
    /\ WorkersIdle

\* client.go 174-345: the first request misses the empty cache, is sent, and
\* its completion is stored under its key
FirstCompletion ==
    /\ fn = "GetCompletion"
    /\ out = NotReturned
    /\ out' = [returned |-> FALSE,
               stored   |-> [h \in {Fingerprint(args.first)} |-> AnswerTo(args.first)]]
    /\ UNCHANGED <<fn, args, NotCall>>

\* client.go 174-182 and 184-345: the second request returns what the cache
\* has under its key, or is sent
SecondCompletion ==
    /\ fn = "GetCompletion"
    /\ ~out.returned
    /\ out # NotReturned
    /\ out' = IF Fingerprint(args.second) \in DOMAIN out.stored
              THEN ReturnedValue([found |-> TRUE, text |-> out.stored[Fingerprint(args.second)]])
              ELSE ReturnedValue([found |-> FALSE, text |-> AnswerTo(args.second)])
    /\ UNCHANGED <<fn, args, NotCall>>

NextKey ==
    \/ FirstCompletion
    \/ SecondCompletion

SpecKey == InitKey /\ [][NextKey]_vars

\* C35: Two completion requests that differ in the model, the system prompt,
\* the max-tokens or the user prompt have different cache fingerprints, and
\* a request answered from the cache gets a completion obtained for the
\* identical request.
C35_DistinctFingerprints ==
    (fn = "GetCompletion" /\ out.returned) =>
        /\ args.first # args.second => Fingerprint(args.first) # Fingerprint(args.second)
        /\ out.value.found => args.second = args.first
        /\ out.value.text = AnswerTo(args.second)

\* Set(k, v) has returned without an error and its entry is the live entry of
\* the index: it is there, it is the one Set stored, and it has not expired
LiveAfterSet(k) ==
    /\ k \in DOMAIN written
    /\ ~written[k].err
    /\ \A t \in DOMAIN tpc : ~(tpc[t] \in {"set_store", "set_persist"} /\ tloc[t].key = k)
    /\ hashKey(k) \in DOMAIN entries
    /\ entries[hashKey(k)].value = written[k].value
    /\ entries[hashKey(k)].createdAt = written[k].at
    /\ ~Expired(entries[hashKey(k)], now)

\* C36: With persistence on, after Set(k, v) returned successfully the file
\* of k stays in the cache directory, holding the entry, for as long as the
\* entry is live in memory, also when a Get that found the previous entry of
\* k expired has started the removal of its file.
C36_DurableWhileLive ==
    (cstatus = "ok" /\ persisted /\ ~fatal) =>
        \A k \in Keys :
            LiveAfterSet(k) =>
                /\ hashKey(k) \in DOMAIN files
                /\ files[hashKey(k)] = entries[hashKey(k)]

C38_IdsOncePerTheme ==
    \A t \in DOMAIN res.themeAnalyses :
        /\ \A i, j \in DOMAIN res.themeAnalyses[t].responses :
              res.themeAnalyses[t].responses[i] = res.themeAnalyses[t].responses[j] => i = j
        /\ Len(res.themeAnalyses[t].responses) <= Cardinality(DOMAIN res.responseAnalyses)

\* ------------------------------------------------------------------------
\* The parallel matching call under a fair scheduler
\* ------------------------------------------------------------------------
\* AnalyzeResponses with a theme list, at its call of the parallel matcher
InitParallel == Init /\ useParallel /\ cfgThemes = ConfigThemes

NextParallel ==
    \/ MatchResponsesToThemesParallel
    \/ \E k \in DOMAIN wpc : Acquire(k)
    \/ \E k \in DOMAIN wpc : CallBatch(k)
    \/ \E k \in DOMAIN wpc : MergeResults(k)
    \/ \E k \in DOMAIN wpc : Release(k)
    \/ WaitAll

\* The Go scheduler runs every goroutine that can run, and every batch
\* request returns: a step of a goroutine, or of the caller, that stays
\* possible is taken.
FairGoroutines ==
    /\ WF_vars(MatchResponsesToThemesParallel)
    /\ WF_vars(WaitAll)
    /\ \A k \in 1..MaxResponses :
          /\ WF_vars(k \in DOMAIN wpc /\ Acquire(k))
          /\ WF_vars(k \in DOMAIN wpc /\ CallBatch(k))
          /\ WF_vars(k \in DOMAIN wpc /\ MergeResults(k))
          /\ WF_vars(k \in DOMAIN wpc /\ Release(k))

SpecParallel == InitParallel /\ [][NextParallel]_vars /\ FairGoroutines

\* the slots of the semaphore that are taken, counted from the goroutines
SlotsHeld == Cardinality({k \in DOMAIN wpc : wpc[k] \in {"holding", "merge", "exit"}})

\* C39: The parallel matching call returns, for every number of batches and
\* every effective worker count, when every batch request returns: the
\* semaphore has at least one slot and never more goroutines inside than
\* slots, the error channel has room for an error of every batch, and at
\* the return every goroutine is done and every slot it took is free
\* again, also after a failed request.
C39_ParallelCallReturns ==
    /\ [](pc = "wait" =>
            /\ numWorkers >= 1
            /\ semaphore = SlotsHeld
            /\ semaphore <= numWorkers
            /\ Len(errorsChan) <= Len(batches))
    /\ [](matchRet.status # "none" =>
            /\ semaphore = 0
            /\ wg = 0
            /\ \A k \in DOMAIN wpc : wpc[k] = "done")
    /\ (pc = "match") ~> (matchRet.status # "none")

\* the call returned an error after two batches shared the one slot of the
\* semaphore and the request of one of them failed
C39_Witness ==
    /\ matchRet.status = "error"
    /\ Len(batches) = 2
    /\ numWorkers = 1
    /\ Len(errorsChan) = 1
    /\ \A k \in DOMAIN wpc : wpc[k] = "done"
    /\ semaphore = 0

====
